---- MODULE Spec2Model ----
(***************************************************************************)
(* Agent team orchestration engine (apps/backend/services).                *)
(*                                                                         *)
(* Spec      AgentOrchestrator + ClaudeCodeAdapter + TaskDispatcher:       *)
(*           start_agent, dispatch_tasks, stop_agent, _monitor_agent and   *)
(*           the worker subprocesses they supervise.                       *)
(* SpecTeam  UnifiedTeamOrchestrator: create_team_from_preset/prompt,      *)
(*           start_agent_on_task, cleanup_team and their monitor tasks.    *)
(*                                                                         *)
(* Every coroutine is cut at the awaits that really suspend; the code      *)
(* between two such awaits is one atomic step (asyncio runs one task at a  *)
(* time).  A database row is written when the coroutine commits.           *)
(***************************************************************************)
EXTENDS Integers, Sequences, FiniteSets, TLC

\* ------------------------------------------------------------------ bounds
NumAgents == 1      \* agents of the project (agent 1 is the lead)
NumTasks == 1       \* work items of the project
MaxSessions == 2    \* session rows ever created by start_agent
MaxLines == 1       \* output lines one worker process writes
MaxCalls == 1       \* API calls in flight at the same time
MaxTeamCalls == 3   \* team orchestrator calls made in one run
MaxTeamFrames == 2  \* team orchestrator calls in flight at the same time
MaxDAgents == 3     \* agents of a project the dispatcher runs on
MaxDTasks == 2      \* tasks of a project the dispatcher runs on
NumMembers == 2     \* agent ids that appear in a team's roster file
MaxOld == 2         \* messages in an inbox file when the watcher starts
MaxClock == 3       \* readings of the filesystem's modification-time clock
MaxWrites == 3      \* writes the worker tool makes to the files after the start
NumWorktrees == 2   \* agents whose worktrees the workspace manager handles
MaxCommits == 1     \* commits a worker adds to its branch
MaxHead == 1        \* commits added to the repository's HEAD in a run
MaxCreates == 2     \* create_worktree calls per agent
NumWorkers == 2     \* workers dispatch_tasks starts, each on its own item
MaxEvents == 2      \* events one worker produces on its output stream
MaxWtFail == 1      \* positions at which a create call's create_worktree may fail
MaxCmds == 3        \* commands sent to an SDK lead

Agents == 1..NumAgents
Tasks == 1..NumTasks

VARIABLES
    \* ---- AgentOrchestrator / ClaudeCodeAdapter
    sessions,           \* AgentSession rows: Seq of [agent_id, status]
    task_status,        \* Task.status, per task
    task_assigned,      \* Task.assigned_agent_id, per task (0 = None)
    task_title,         \* Task.title, per task (a sequence of characters)
    procs,              \* the subprocesses spawned so far
    processes,          \* ClaudeCodeAdapter._processes: agent -> process (0 = absent)
    monitoring_tasks,   \* AgentOrchestrator._monitoring_tasks: agent -> task (0 = absent)
    monitors,           \* the _monitor_agent tasks created so far
    calls,              \* API coroutines suspended at an await
    agent_status        \* last status sent by _emit_agent_status, per agent

aoVars == <<sessions, task_status, task_assigned, task_title, procs, processes,
            monitoring_tasks, monitors, calls, agent_status>>

VARIABLES
    agent_rows,       \* Agent table: rows [id, is_lead, parent_agent_id, team_name]
    session_rows,     \* AgentSession table of the team's workers: rows [id, agent_id, status]
    states,           \* the TeamState objects created so far
    teams,            \* UnifiedTeamOrchestrator._teams[project]: index in states, 0 = no entry
    cli_processes,    \* _cli_processes[project]: index in tprocs, 0 = no entry
    team_monitors,    \* _monitors[project]: index in tmons, 0 = no entry
    agent_monitors,   \* _agent_monitors: agent id -> index in tmons
    tprocs,           \* the CLI processes spawned for teams
    tmons,            \* the monitor tasks created for teams
    tcalls,           \* orchestrator calls suspended at an await
    ncalls,           \* orchestrator calls made so far
    preset_error      \* the last create_team_from_preset call returned {"error": ...}

teamVars == <<agent_rows, session_rows, states, teams, cli_processes, team_monitors,
              agent_monitors, tprocs, tmons, tcalls, ncalls, preset_error>>

VARIABLES
    \* ---- TaskDispatcher, on a project's agents and tasks
    d_roles,          \* Agent.role of the project's agents, by id
    d_tasks,          \* Task rows by id: [title, status, assigned] (assigned 0 = None)
    d_call            \* the last dispatcher call: [op, arg, result]

dispVars == <<d_roles, d_tasks, d_call>>

VARIABLES
    \* ---- TeamFileWatcher and the files it polls
    now,              \* the filesystem's modification-time clock
    config_file,      \* teams/{team}/config.json: [exists, mtime, valid, members]
    inbox_files,      \* teams/{team}/inboxes/{name}.json: [exists, mtime, valid, msgs]
    writes,           \* writes made to the files since the watcher started
    appended,         \* per inbox: messages appended since the watcher started
    inbox_rewritten,  \* per inbox: the file was rewritten, not only appended to
    config_mtime,     \* TeamFileWatcher._config_mtime
    known_members,    \* TeamFileWatcher._known_members
    inbox_mtimes,     \* TeamFileWatcher._inbox_mtimes (a dict: absent keys absent)
    inbox_lengths,    \* TeamFileWatcher._inbox_lengths (a dict)
    w_pc,             \* position of start(): init, config, inboxes, tasks,
                      \* sleep, returned
    task_files,       \* tasks/{team}/{name}: [exists, mtime, valid]
    task_dirs,        \* the directories under tasks/: [by_name, other]
    task_dir,         \* TeamFileWatcher._task_dir
    task_mtimes,      \* TeamFileWatcher._task_mtimes (a dict)
    stop_event,       \* TeamFileWatcher._stop_event is set
    observed,         \* the task files the watcher has met in a snapshot or a poll
    read_failed,      \* the inboxes whose last read, of a change, raised
    task_update,      \* the (name, is_new) pairs passed to _on_task_update, in order
    member_joined,    \* per member: awaits of the _on_member_joined callback
    member_left,      \* per member: awaits of the _on_member_left callback
    inbox_message     \* the (name, msg) pairs passed to _on_inbox_message, in order

fileVars == <<now, config_file, inbox_files, task_files, task_dirs, writes, appended,
              inbox_rewritten>>
watcherVars == <<config_mtime, known_members, inbox_mtimes, inbox_lengths, task_mtimes, task_dir,
                 stop_event, observed, read_failed, w_pc>>
callbackVars == <<member_joined, member_left, inbox_message, task_update>>
watchVars == <<fileVars, watcherVars, callbackVars>>

VARIABLES
    \* ---- UnifiedTeamOrchestrator.send_command_to_lead
    command_queue,    \* TeamState.command_queue, per TeamState: the texts queued
    send_result,      \* what the last send_command_to_lead call returned
    sdk_mon,          \* the _monitor_sdk_session task: [pc, prompt, sid, cancelled]
    sdk_stop,         \* TeamState.stop_event of the monitor's team is set
    sdk_sent,         \* commands sent to the lead so far (they are numbered in order)
    sdk_runs          \* the queries the monitor started, in order: [prompt, done]

cmdVars == <<command_queue, send_result, sdk_mon, sdk_stop, sdk_sent, sdk_runs>>

VARIABLES
    \* ---- GitWorkspaceManager and the repository it works on
    repo_head,        \* the commit HEAD of the repository is at
    worktrees,        \* per agent: its worktree directory and its branch
    creates,          \* per agent: create_worktree calls made
    git_call,         \* the last create_worktree call: what it met and gave
    project_name,     \* the project name the orchestrators pass to create_worktree
    merge_plan        \* the last create_merge_plan call: its agent ids and its list

gitVars == <<repo_head, worktrees, creates, git_call, project_name, merge_plan>>

VARIABLES
    \* ---- AgentOrchestrator with several workers, each on its own item,
    \* ---- and the channel between a worker and its monitor
    adapter_mode,     \* settings.CLAUDE_ADAPTER_MODE: "cli", "sdk" or "agent-sdk"
    next_assignment,  \* dispatch_tasks: the assignment its loop is at
    tasks_started,    \* dispatch_tasks: the assignments whose start_agent returned
    item_status,      \* Task.status of each worker's item
    sess_status,      \* AgentSession.status of each worker's session ("none": no row)
    running,          \* per worker: is_running(agent_id)
    produced,         \* per worker: the events the worker has produced, in order
    channel,          \* per worker: the events produced and not yet read
    closed,           \* per worker: the worker produces no more events
    wmon,             \* per worker: its _monitor_agent task
    sink,             \* per worker: the events passed to _emit_log, in order
    committed         \* per worker: commit_changes was run on its worktree

streamVars == <<adapter_mode, next_assignment, tasks_started, item_status, sess_status,
                running, produced, channel, closed, wmon, sink, committed>>

\* The variables of the components added after the orchestrators, the
\* dispatcher and the file watcher.
moreVars == <<cmdVars, gitVars, streamVars>>

\* The variables outside the two orchestrators.
dwVars == <<dispVars, watchVars, moreVars>>

vars == <<aoVars, teamVars, dispVars, watchVars, moreVars>>

\* ------------------------------------------------------------ models/*.py
SessionStatus == {"starting", "running", "idle", "stopped", "failed"}
TaskStatus == {"todo", "in_progress", "blocked", "review", "done", "failed"}

\* models/agent.py AgentRole of the project's agents: one lead, then workers.
AgentRoleOf(a) ==
    IF a = 1 THEN "lead" ELSE IF a % 2 = 0 THEN "backend" ELSE "frontend"

\* ------------------------------------------- services/task_dispatcher.py
\* A title is a sequence of characters; str.lower() maps A-Z to a-z.
UpperChars == <<"A","B","C","D","E","F","G","H","I","J","K","L","M",
                "N","O","P","Q","R","S","T","U","V","W","X","Y","Z">>
LowerChars == <<"a","b","c","d","e","f","g","h","i","j","k","l","m",
                "n","o","p","q","r","s","t","u","v","w","x","y","z">>

LowerChar(c) ==
    IF \E i \in 1..Len(UpperChars) : UpperChars[i] = c
    THEN LowerChars[CHOOSE i \in 1..Len(UpperChars) : UpperChars[i] = c]
    ELSE c

Lower(str) == [i \in 1..Len(str) |-> LowerChar(str[i])]

\* Python's `keyword in title_lower`: substring test.
Contains(str, kw) ==
    \E i \in 1..(Len(str) - Len(kw) + 1) : SubSeq(str, i, i + Len(kw) - 1) = kw

\* TaskDispatcher.ROLE_MAP, in dict (insertion) order.
ROLE_MAP == <<
    [kw |-> <<"b","a","c","k","e","n","d">>,         role |-> "backend"],
    [kw |-> <<"a","p","i">>,                         role |-> "backend"],
    [kw |-> <<"s","e","r","v","e","r">>,             role |-> "backend"],
    [kw |-> <<"f","r","o","n","t","e","n","d">>,     role |-> "frontend"],
    [kw |-> <<"c","l","i","e","n","t">>,             role |-> "frontend"],
    [kw |-> <<"r","e","n","d","e","r","e","r">>,     role |-> "frontend"],
    [kw |-> <<"u","i">>,                             role |-> "frontend"],
    [kw |-> <<"t","e","s","t">>,                     role |-> "qa"],
    [kw |-> <<"s","p","e","c">>,                     role |-> "qa"],
    [kw |-> <<"q","a">>,                             role |-> "qa"],
    [kw |-> <<"d","o","c">>,                         role |-> "docs"],
    [kw |-> <<"g","u","i","d","e">>,                 role |-> "docs"],
    [kw |-> <<"s","e","c","u","r","i","t","y">>,     role |-> "security"] >>

NoRole == "none"

\* A keyword scan that compares the title as written (no lower()).
PreferredRole_CaseSensitive(title) ==
    LET hits == {i \in 1..Len(ROLE_MAP) : Contains(title, ROLE_MAP[i].kw)}
    IN  IF title = <<>> \/ hits = {} THEN NoRole
        ELSE ROLE_MAP[CHOOSE i \in hits : \A j \in hits : i <= j].role

\* _find_best_agent, lines 120-128: the first keyword of ROLE_MAP found in the title.
PreferredRole(title) ==
    LET t == Lower(title)
        hits == {i \in 1..Len(ROLE_MAP) : Contains(t, ROLE_MAP[i].kw)}
    IN  IF title = <<>> \/ hits = {} THEN NoRole
        ELSE ROLE_MAP[CHOOSE i \in hits : \A j \in hits : i <= j].role

\* The titles items carry in the runs below, and the preferred role of each
\* (PreferredRole, evaluated once per title).
Title_FixApi == <<"F","i","x"," ","l","o","g","i","n"," ","A","P","I"," ","b","u","g">>
Title_Misc == <<"r","e","f","a","c","t","o","r">>
Title_TestUi == <<"T","e","s","t"," ","U","I">>
TitleOf(t) == IF t = 1 THEN Title_FixApi ELSE Title_Misc
Titles == {Title_FixApi, Title_Misc, Title_TestUi}
PreferredRoleOf == [title \in Titles |-> PreferredRole(title)]

\* A pick that takes the first candidate whatever the loads.
FirstMinLoad_Head(cands, load_map) == cands[1]

\* candidates.sort(key=load) is stable: the first candidate of minimum load.
FirstMinLoad(cands, load_map) ==
    cands[CHOOSE i \in 1..Len(cands) :
            /\ \A j \in 1..Len(cands) : load_map[cands[i]] <= load_map[cands[j]]
            /\ \A j \in 1..(i - 1) : load_map[cands[j]] > load_map[cands[i]]]

\* _find_best_agent without the fallback to all non-lead agents (line 138).
FindBestAgent_NoFallback(title, agents, roles, load_map) ==
    LET pref == PreferredRoleOf[title]
        matching == IF pref = NoRole THEN <<>>
                    ELSE SelectSeq(agents, LAMBDA a : roles[a] = pref
                                                       /\ roles[a] # "lead")
    IN  IF matching = <<>> THEN 0 ELSE FirstMinLoad(matching, load_map)

\* _find_best_agent without the role filter (lines 131-134).
FindBestAgent_AnyRole(title, agents, roles, load_map) ==
    LET nonLead == SelectSeq(agents, LAMBDA a : roles[a] # "lead")
    IN  IF nonLead = <<>> THEN 0 ELSE FirstMinLoad(nonLead, load_map)

\* _find_best_agent whose fallback pool keeps the lead (line 138).
FindBestAgent_LeadCandidate(title, agents, roles, load_map) ==
    LET pref == PreferredRoleOf[title]
        matching == IF pref = NoRole THEN <<>>
                    ELSE SelectSeq(agents, LAMBDA a : roles[a] = pref
                                                       /\ roles[a] # "lead")
        cands == IF matching # <<>> THEN matching ELSE agents
    IN  IF cands = <<>> THEN 0 ELSE FirstMinLoad(cands, load_map)

\* _find_best_agent: agent id, or 0 for None.  agents: the ids in query
\* order; roles: Agent.role of each id.
FindBestAgent(title, agents, roles, load_map) ==
    LET pref == PreferredRoleOf[title]
        matching == IF pref = NoRole THEN <<>>
                    ELSE SelectSeq(agents, LAMBDA a : roles[a] = pref
                                                       /\ roles[a] # "lead")
        nonLead == SelectSeq(agents, LAMBDA a : roles[a] # "lead")
        cands == IF matching # <<>> THEN matching ELSE nonLead
    IN  IF cands = <<>> THEN 0 ELSE FirstMinLoad(cands, load_map)

\* The ids of a set, ascending (the order of a query's result).
RECURSIVE SortedSeq(_)
SortedSeq(S) ==
    IF S = {} THEN <<>>
    ELSE LET m == CHOOSE x \in S : \A y \in S : x <= y
         IN  <<m>> \o SortedSeq(S \ {m})

\* The assignment loop of auto_assign, lines 86-107.
RECURSIVE AssignLoop(_, _, _, _, _, _, _)
AssignLoop(todo, agents, roles, lead, load_map, titles, acc) ==
    IF todo = <<>> THEN acc
    ELSE LET t == Head(todo)
             best == FindBestAgent(titles[t], agents, roles, load_map)
             agent == IF best = 0 /\ lead # 0 THEN lead ELSE best
         IN  IF agent = 0
             THEN AssignLoop(Tail(todo), agents, roles, lead, load_map, titles, acc)
             ELSE AssignLoop(Tail(todo), agents, roles, lead,
                             [load_map EXCEPT ![agent] = @ + 1], titles,
                             Append(acc, <<agent, t>>))

\* An auto_assign whose query takes every todo item, assigned or not.
auto_assign_AllTodo(roles, tStatus, tAssigned, titles, task_id) ==
    LET agentSet == DOMAIN roles
        agents == SortedSeq(agentSet)
        todo == SortedSeq({t \in DOMAIN tStatus :
                              /\ tStatus[t] = "todo"
                              /\ task_id # 0 => t = task_id})
        load_map == [a \in agentSet |->
                        Cardinality({t \in DOMAIN tStatus :
                                        /\ tStatus[t] \in {"in_progress", "review"}
                                        /\ tAssigned[t] = a})]
        leads == {a \in agentSet : roles[a] = "lead"}
        lead == IF leads = {} THEN 0 ELSE CHOOSE a \in leads : \A b \in leads : a <= b
    IN  IF agentSet = {} \/ todo = <<>> THEN <<>>
        ELSE AssignLoop(todo, agents, roles, lead, load_map, titles, <<>>)

\* auto_assign(db, project_id, task_id): the list of <<agent, task>> it
\* returns.  roles: Agent.role of the project's agents, by id; tStatus,
\* tAssigned, titles: the columns of the project's tasks, by id; task_id = 0
\* for None.
auto_assign(roles, tStatus, tAssigned, titles, task_id) ==
    LET agentSet == DOMAIN roles
        agents == SortedSeq(agentSet)
        todo == SortedSeq({t \in DOMAIN tStatus :
                              /\ tAssigned[t] = 0
                              /\ tStatus[t] = "todo"
                              /\ task_id # 0 => t = task_id})
        load_map == [a \in agentSet |->
                        Cardinality({t \in DOMAIN tStatus :
                                        /\ tStatus[t] \in {"in_progress", "review"}
                                        /\ tAssigned[t] = a})]
        leads == {a \in agentSet : roles[a] = "lead"}
        lead == IF leads = {} THEN 0 ELSE CHOOSE a \in leads : \A b \in leads : a <= b
    IN  IF agentSet = {} \/ todo = <<>> THEN <<>>
        ELSE AssignLoop(todo, agents, roles, lead, load_map, titles, <<>>)

\* A requeue that resets the status and keeps the assignee.
requeue_failed_KeepsAssignee(tasks, task_id) ==
    IF task_id \in DOMAIN tasks
    THEN [tasks EXCEPT ![task_id].status = "todo"]
    ELSE tasks

\* requeue_failed(db, task_id) on the task rows: db.get, then status TODO and
\* assigned_agent_id None; no row, no change (the call returns None).
requeue_failed(tasks, task_id) ==
    IF task_id \in DOMAIN tasks
    THEN [tasks EXCEPT ![task_id].status = "todo", ![task_id].assigned = 0]
    ELSE tasks

\* ------------------------------------------------ worker subprocesses (OS)
\* One line of a worker's stdout as stream_output yields it: its "type" and
\* whether its content holds a sentinel phrase ("Task completed", "DONE").
Events == { [type |-> "complete", sentinel |-> FALSE],
            [type |-> "error",    sentinel |-> TRUE],
            [type |-> "text",     sentinel |-> TRUE],
            [type |-> "text",     sentinel |-> FALSE] }

\* A spawned process: its return code as asyncio knows it ("none" while it
\* has not been reaped), whether its stdout pipe is at end-of-file, and the
\* last signal sent to it.
NewProc(a) ==
    [agent |-> a, returncode |-> "none", eof |-> FALSE, sig |-> "none"]

\* The stdout pipe reaches end-of-file (before or after the exit is reaped).
ProcCloseStdout(p) ==
    /\ ~procs[p].eof
    /\ procs' = [procs EXCEPT ![p].eof = TRUE]
    /\ UNCHANGED <<sessions, task_status, task_assigned, task_title, processes,
                   monitoring_tasks, monitors, calls, agent_status>>
    /\ UNCHANGED <<teamVars, dwVars>>

\* The process exits and asyncio records its return code.
ProcExit(p, rc) ==
    /\ procs[p].returncode = "none"
    /\ procs[p].sig = "kill" => rc = "nonzero"
    /\ procs' = [procs EXCEPT ![p].returncode = rc]
    /\ UNCHANGED <<sessions, task_status, task_assigned, task_title, processes,
                   monitoring_tasks, monitors, calls, agent_status>>
    /\ UNCHANGED <<teamVars, dwVars>>

\* ------------------------------------------ services/claude_adapter.py
\* ClaudeCodeAdapter.is_running
is_running(a) ==
    processes[a] # 0 /\ procs[processes[a]].returncode = "none"

\* ---------------------------------------- services/agent_orchestrator.py
NoFrame == <<>>

Frame(op, pc, a, t, s, p, rest) ==
    [op |-> op, pc |-> pc, agent |-> a, task |-> t, session |-> s, proc |-> p,
     rest |-> rest]

\* Items the suspended calls have still to start (each adds a session row).
RECURSIVE Reserved(_)
Reserved(cs) == IF cs = <<>> THEN 0 ELSE Len(Head(cs).rest) + Reserved(Tail(cs))

RemoveAt(seq, i) == SubSeq(seq, 1, i - 1) \o SubSeq(seq, i + 1, Len(seq))

\* start_agent, lines 71-104, for the next item of `rest`, up to its first
\* suspending await: the worktree, the STARTING session row, the item moved
\* to in_progress.  wtOk = FALSE: create_worktree raises RuntimeError.
BeginNext(op, rest, wtOk, S, TS, TA, AS) ==
    IF rest = <<>>
    THEN [frame |-> NoFrame, sessions |-> S, task_status |-> TS,
          task_assigned |-> TA, agent_status |-> AS]
    ELSE LET a == rest[1][1]
             t == rest[1][2]
         IN  IF ~wtOk
             THEN [frame |-> <<Frame(op, "wt_failed", a, t, 0, 0, Tail(rest))>>,
                   sessions |-> S, task_status |-> TS, task_assigned |-> TA,
                   agent_status |-> [AS EXCEPT ![a] = "failed"]]
             ELSE [frame |-> <<Frame(op, "spawn", a, t, Len(S) + 1, 0, Tail(rest))>>,
                   sessions |-> Append(S, [agent_id |-> a, status |-> "starting"]),
                   task_status |-> [TS EXCEPT ![t] = "in_progress"],
                   task_assigned |-> [TA EXCEPT ![t] = a],
                   agent_status |-> [AS EXCEPT ![a] = "in_progress"]]

\* POST /start-agent: AgentOrchestrator.start_agent(agent, task).
StartAgentCall(a, t, wtOk) ==
    /\ Len(calls) < MaxCalls
    /\ Len(sessions) + Reserved(calls) < MaxSessions
    /\ LET r == BeginNext("start_agent", <<<<a, t>>>>, wtOk, sessions, task_status,
                          task_assigned, agent_status)
       IN  /\ calls' = calls \o r.frame
           /\ sessions' = r.sessions
           /\ task_status' = r.task_status
           /\ task_assigned' = r.task_assigned
           /\ agent_status' = r.agent_status
    /\ UNCHANGED <<task_title, procs, processes, monitoring_tasks, monitors>>
    /\ UNCHANGED <<teamVars, dwVars>>

\* POST /dispatch: AgentOrchestrator.dispatch_tasks: auto_assign, then the
\* first start_agent up to its first suspending await.
DispatchCall(wtOk) ==
    LET assignments == auto_assign([a \in Agents |-> AgentRoleOf(a)], task_status,
                                   task_assigned, task_title, 0)
        assigned == [t \in Tasks |->
                        IF \E i \in 1..Len(assignments) : assignments[i][2] = t
                        THEN assignments[CHOOSE i \in 1..Len(assignments) :
                                            assignments[i][2] = t][1]
                        ELSE task_assigned[t]]
    IN  /\ assignments # <<>>
        /\ Len(calls) < MaxCalls
        /\ Len(sessions) + Reserved(calls) + Len(assignments) <= MaxSessions
        /\ LET r == BeginNext("dispatch_tasks", assignments, wtOk, sessions,
                              task_status, assigned, agent_status)
           IN  /\ calls' = calls \o r.frame
               /\ sessions' = r.sessions
               /\ task_status' = r.task_status
               /\ task_assigned' = r.task_assigned
               /\ agent_status' = r.agent_status
        /\ UNCHANGED <<task_title, procs, processes, monitoring_tasks, monitors>>
        /\ UNCHANGED <<teamVars, dwVars>>

NewMonitor(a, t, s) ==
    [agent |-> a, task |-> t, session |-> s, proc |-> 0, pc |-> "start",
     completed_ok |-> FALSE, cancelled |-> FALSE, lines |-> 0, outcome |-> "none"]

\* A finished monitor task: only the fact that it is done is left.
Done(mon) ==
    [mon EXCEPT !.pc = "done", !.cancelled = FALSE,
                !.completed_ok = FALSE, !.lines = 0, !.outcome = "none",
                !.proc = 0]

\* start_agent, lines 107-127: start_session returned a process.  The adapter
\* registers it, the session becomes RUNNING, the monitor task is created and
\* registered; a dispatch_tasks loop goes on with its next assignment.
StartSpawned(i, wtOk) ==
    /\ calls[i].pc = "spawn"
    /\ LET c == calls[i]
           p == Len(procs) + 1
           m == Len(monitors) + 1
           S1 == [sessions EXCEPT ![c.session].status = "running"]
           r == BeginNext(c.op, c.rest, wtOk, S1, task_status, task_assigned,
                          agent_status)
       IN  /\ procs' = Append(procs, NewProc(c.agent))
           /\ processes' = [processes EXCEPT ![c.agent] = p]
           /\ monitors' = Append(monitors, NewMonitor(c.agent, c.task, c.session))
           /\ monitoring_tasks' = [monitoring_tasks EXCEPT ![c.agent] = m]
           /\ calls' = SubSeq(calls, 1, i - 1) \o r.frame \o SubSeq(calls, i + 1, Len(calls))
           /\ sessions' = r.sessions
           /\ task_status' = r.task_status
           /\ task_assigned' = r.task_assigned
           /\ agent_status' = r.agent_status
    /\ UNCHANGED task_title
    /\ UNCHANGED <<teamVars, dwVars>>

\* start_agent, lines 129-140: start_session raised.  Session and item are
\* committed as failed, then the coroutine awaits the two emits.
StartSpawnFailed(i) ==
    /\ calls[i].pc = "spawn"
    /\ LET c == calls[i]
       IN  /\ sessions' = [sessions EXCEPT ![c.session].status = "failed"]
           /\ task_status' = [task_status EXCEPT ![c.task] = "failed"]
           /\ agent_status' = [agent_status EXCEPT ![c.agent] = "failed"]
           /\ calls' = [calls EXCEPT ![i].pc = "emit_failed"]
    /\ UNCHANGED <<task_assigned, task_title, procs, processes, monitoring_tasks,
                   monitors>>
    /\ UNCHANGED <<teamVars, dwVars>>

\* The call resumes after the emits of a failed start (worktree or launch):
\* start_agent raises or returns, dispatch_tasks goes on with its next item.
StartResume(i, wtOk) ==
    /\ calls[i].pc \in {"wt_failed", "emit_failed"}
    /\ LET c == calls[i]
           r == BeginNext(c.op, c.rest, wtOk, sessions, task_status, task_assigned,
                          agent_status)
       IN  /\ calls' = SubSeq(calls, 1, i - 1) \o r.frame \o SubSeq(calls, i + 1, Len(calls))
           /\ sessions' = r.sessions
           /\ task_status' = r.task_status
           /\ task_assigned' = r.task_assigned
           /\ agent_status' = r.agent_status
    /\ UNCHANGED <<task_title, procs, processes, monitoring_tasks, monitors>>
    /\ UNCHANGED <<teamVars, dwVars>>

\* _monitor_agent, lines 252-278, run when the stream has ended: the branch
\* taken.  The statuses are set on the objects; the commit comes after the
\* awaits of the branch (get_stderr, _emit_agent_status).
FinalOutcome(completed_ok, a) ==
    IF completed_ok \/ ~is_running(a) THEN "idle" ELSE "failed"

\* First step of a monitor task: stream_output looks the process up.  A task
\* cancelled before its first step never runs; with no process the generator
\* returns at once and the stream has ended.
MonStart(m) ==
    /\ monitors[m].pc = "start"
    /\ LET mon == monitors[m]
           p == processes[mon.agent]
       IN  monitors' =
             IF mon.cancelled
             THEN [monitors EXCEPT ![m] = Done(mon)]
             ELSE IF p = 0
             THEN [monitors EXCEPT ![m].pc = "emit_status",
                                   ![m].outcome = FinalOutcome(FALSE, mon.agent)]
             ELSE [monitors EXCEPT ![m].pc = "stream", ![m].proc = p]
    /\ UNCHANGED <<sessions, task_status, task_assigned, task_title, procs,
                   processes, monitoring_tasks, calls, agent_status>>
    /\ UNCHANGED <<teamVars, dwVars>>

\* _monitor_agent, lines 242-250: completed_ok after one event.
CompletedAfter(completed_ok, ev) ==
    IF ev.type = "complete" THEN TRUE
    ELSE IF ev.type = "error" THEN FALSE
    ELSE IF ev.sentinel THEN TRUE
    ELSE completed_ok

\* stream_output yields the next line `ev` the worker wrote to its stdout;
\* the monitor then awaits _emit_log for it.  completed_ok is a local of the
\* coroutine that nothing else reads: its update for `ev` (lines 242-250,
\* after the await) is recorded here and is lost if the await is cancelled.
MonRead(m, ev) ==
    /\ monitors[m].pc = "stream"
    /\ ~monitors[m].cancelled
    /\ ~procs[monitors[m].proc].eof
    /\ monitors[m].lines < MaxLines
    /\ monitors' = [monitors EXCEPT ![m].pc = "emit_log", ![m].lines = @ + 1,
                                    ![m].completed_ok = CompletedAfter(@, ev)]
    /\ UNCHANGED <<sessions, task_status, task_assigned, task_title, procs,
                   processes, monitoring_tasks, calls, agent_status>>
    /\ UNCHANGED <<teamVars, dwVars>>

\* The await of _emit_log returns (or raises CancelledError, which
\* _monitor_agent catches: the task ends with nothing committed).
MonEmitLog(m) ==
    /\ monitors[m].pc = "emit_log"
    /\ monitors' =
         IF monitors[m].cancelled
         THEN [monitors EXCEPT ![m] = Done(monitors[m])]
         ELSE [monitors EXCEPT ![m].pc = "stream"]
    /\ UNCHANGED <<sessions, task_status, task_assigned, task_title, procs,
                   processes, monitoring_tasks, calls, agent_status>>
    /\ UNCHANGED <<teamVars, dwVars>>

\* The stream ends: stdout is at end-of-file, or the task was
\* cancelled while stream_output awaited a line (stream_output catches
\* CancelledError, lines 139-140, and returns, so the monitor goes on).
MonStreamEnd(m) ==
    /\ monitors[m].pc = "stream"
    /\ LET mon == monitors[m]
       IN  /\ \/ mon.cancelled
              \/ procs[mon.proc].eof
           /\ monitors' = [monitors EXCEPT
                             ![m].pc = "emit_status", ![m].cancelled = FALSE,
                             ![m].outcome = FinalOutcome(mon.completed_ok, mon.agent)]
    /\ UNCHANGED <<sessions, task_status, task_assigned, task_title, procs,
                   processes, monitoring_tasks, calls, agent_status>>
    /\ UNCHANGED <<teamVars, dwVars>>

\* _monitor_agent, lines 263-283: the awaits of the chosen branch return, the
\* status is reported and item and session are committed; or the task is
\* cancelled at those awaits and ends with nothing committed.
MonFinish(m) ==
    /\ monitors[m].pc = "emit_status"
    /\ LET mon == monitors[m]
           ok == mon.outcome = "idle"
       IN  IF mon.cancelled
           THEN /\ monitors' = [monitors EXCEPT ![m] = Done(mon)]
                /\ UNCHANGED <<sessions, task_status, agent_status>>
           ELSE /\ monitors' = [monitors EXCEPT ![m] = Done(mon)]
                /\ agent_status' = [agent_status EXCEPT
                                      ![mon.agent] = IF ok THEN "review" ELSE "failed"]
                /\ task_status' = [task_status EXCEPT
                                     ![mon.task] = IF ok THEN "review" ELSE "failed"]
                /\ sessions' = [sessions EXCEPT
                                  ![mon.session].status = IF ok THEN "idle" ELSE "failed"]
    /\ UNCHANGED <<task_assigned, task_title, procs, processes, monitoring_tasks, calls>>
    /\ UNCHANGED <<teamVars, dwVars>>

\* An update without the agent_id condition of the query.
MarkStopped_AllAgents(S, a) ==
    [i \in 1..Len(S) |->
        IF S[i].status = "running" THEN [S[i] EXCEPT !.status = "stopped"] ELSE S[i]]

\* stop_agent, lines 186-195: every RUNNING session of the agent becomes STOPPED.
MarkStopped(S, a) ==
    [i \in 1..Len(S) |->
        IF S[i].agent_id = a /\ S[i].status = "running"
        THEN [S[i] EXCEPT !.status = "stopped"] ELSE S[i]]

\* Task.cancel() on the registered monitor, if it is not done.
CancelMonitor(M, m) ==
    IF m # 0 /\ M[m].pc # "done" THEN [M EXCEPT ![m].cancelled = TRUE] ELSE M

\* POST /stop-agent: stop_agent up to its first suspending await.  The monitor
\* is popped and cancelled, stop_session pops the process; with no process or
\* an exited one stop_session returns at once and the sessions are updated in
\* the same step, else SIGTERM is sent and the call waits for the exit.
StopAgentCall(a) ==
    LET m == monitoring_tasks[a]
        p == processes[a]
    IN  /\ monitors' = CancelMonitor(monitors, m)
        /\ monitoring_tasks' = [monitoring_tasks EXCEPT ![a] = 0]
        /\ processes' = [processes EXCEPT ![a] = 0]
        /\ IF p = 0 \/ procs[p].returncode # "none"
           THEN /\ sessions' = MarkStopped(sessions, a)
                /\ UNCHANGED <<procs, calls>>
           ELSE /\ Len(calls) < MaxCalls
                /\ procs' = [procs EXCEPT ![p].sig = "term"]
                /\ calls' = Append(calls, Frame("stop_agent", "wait_term", a, 0, 0, p, <<>>))
                /\ UNCHANGED sessions
        /\ UNCHANGED <<task_status, task_assigned, task_title, agent_status>>
        /\ UNCHANGED <<teamVars, dwVars>>

\* stop_session, lines 183-185: the process exited within the timeout.
StopAgentExited(i) ==
    /\ calls[i].op = "stop_agent"
    /\ procs[calls[i].proc].returncode # "none"
    /\ sessions' = MarkStopped(sessions, calls[i].agent)
    /\ calls' = RemoveAt(calls, i)
    /\ UNCHANGED <<task_status, task_assigned, task_title, procs, processes,
                   monitoring_tasks, monitors, agent_status>>
    /\ UNCHANGED <<teamVars, dwVars>>

\* stop_session, lines 186-192: the timeout passed, SIGKILL is sent and the
\* call waits for the exit again.
StopAgentTimeout(i) ==
    /\ calls[i].op = "stop_agent"
    /\ calls[i].pc = "wait_term"
    /\ procs[calls[i].proc].returncode = "none"
    /\ procs' = [procs EXCEPT ![calls[i].proc].sig = "kill"]
    /\ calls' = [calls EXCEPT ![i].pc = "wait_kill"]
    /\ UNCHANGED <<sessions, task_status, task_assigned, task_title, processes,
                   monitoring_tasks, monitors, agent_status>>
    /\ UNCHANGED <<teamVars, dwVars>>

\* No SDK monitor task.  prompt: current_prompt (0: the initial prompt, n:
\* the n-th command sent); sid: _session_ids holds a session id.
NoSdkMonitor == [pc |-> "none", prompt |-> 0, sid |-> FALSE, cancelled |-> FALSE]

\* ------------------------------------- services/unified_orchestrator.py
\* The model follows the CLI fallback (claude_agent_sdk not importable, the
\* claude CLI found by shutil.which) for one project.  Agent.status and the
\* websocket broadcasts are not part of the state.

\* db_agents of the presets: the is_lead flag of each record, in order.
TEAM_PRESETS ==
    [fullstack |-> <<TRUE, FALSE, FALSE, FALSE>>,
     research  |-> <<TRUE, FALSE, FALSE, FALSE>>,
     review    |-> <<TRUE, FALSE, FALSE>>,
     debug     |-> <<TRUE, FALSE, FALSE, FALSE>>]

\* The presets and the team name of prompt teams that the calls draw from.
PresetIds == {"review"}
PromptTeamName == "chibi-team"

\* The id SQLite gives the next inserted row: one more than the largest.
NextId(rows) ==
    IF rows = {} THEN 1
    ELSE 1 + (CHOOSE n \in {r.id : r \in rows} : \A r \in rows : r.id <= n)

HasRow(rows, id) == \E r \in rows : r.id = id

\* select(AgentSession).where(agent_id == a).first(): the id of the first
\* session row of the agent, 0 if there is none.
FirstSession(rows, a) ==
    IF \E r \in rows : r.agent_id = a
    THEN CHOOSE n \in {r.id : r \in {q \in rows : q.agent_id = a}} :
            \A r \in rows : r.agent_id = a => n <= r.id
    ELSE 0

\* session.status = st; db.add(session); db.commit() on the row with this id.
SetSessionStatus(rows, id, st) ==
    {IF r.id = id THEN [r EXCEPT !.status = st] ELSE r : r \in rows}

\* The orchestrator's registries, tasks, processes and tables as one value.
World ==
    [ar |-> agent_rows, sr |-> session_rows, st |-> states, tm |-> teams,
     cp |-> cli_processes, lm |-> team_monitors, am |-> agent_monitors,
     pr |-> tprocs, mo |-> tmons]

SetWorld(w) ==
    /\ agent_rows' = w.ar
    /\ session_rows' = w.sr
    /\ states' = w.st
    /\ teams' = w.tm
    /\ cli_processes' = w.cp
    /\ team_monitors' = w.lm
    /\ agent_monitors' = w.am
    /\ tprocs' = w.pr
    /\ tmons' = w.mo

\* A suspended call: the operation, where it is suspended, and its locals.
\* solo: no other call was in flight at any time since this one began.
TeamFrame(op, preset, wtfail, solo) ==
    [op |-> op, pc |-> "begin", preset |-> preset, wtfail |-> wtfail,
     agents |-> <<>>, todo |-> <<>>, mon |-> 0, proc |-> 0, lead |-> 0,
     agent |-> 0, session |-> 0, solo |-> solo]

\* What running a call up to its next suspension gives: the world, the frame,
\* and whether the call is still in flight (live) or has returned or raised.
Step(w, f, live) == [w |-> w, f |-> f, live |-> live]

\* Task.cancel() on a monitor task that is not done.
CancelTask(mo, m) == [mo EXCEPT ![m].cancelled = TRUE]

\* cleanup_team, lines 1136-1157: the worktrees are removed, the agents read
\* at line 1105 and their sessions are deleted and committed.  A row that is
\* already gone is skipped; a row that took over the id is deleted.
CleanupDelete(w, f) ==
    LET ids == {f.agents[i] : i \in 1..Len(f.agents)}
    IN  Step([w EXCEPT !.ar = {r \in w.ar : r.id \notin ids},
                       !.sr = {r \in w.sr : r.agent_id \notin ids}],
             [f EXCEPT !.pc = "cleaned", !.agents = <<>>, !.todo = <<>>,
                       !.mon = 0, !.proc = 0],
             TRUE)

\* cleanup_team, lines 1118-1134: the lead process is popped; a running one
\* gets SIGTERM and the call waits up to 5 s for its exit.
CleanupProc(w, f) ==
    LET p == w.cp
        w1 == [w EXCEPT !.cp = 0]
    IN  IF p # 0 /\ w.pr[p].alive
        THEN Step([w1 EXCEPT !.pr[p].sig = "term"],
                  [f EXCEPT !.pc = "wait_proc", !.proc = p, !.mon = 0], TRUE)
        ELSE CleanupDelete(w1, f)

\* cleanup_team, lines 1106-1113: the loop over the agents read at line 1105;
\* a registered monitor that is not done is cancelled and awaited.
RECURSIVE CleanupLoop(_, _)
CleanupLoop(w, f) ==
    IF f.todo = <<>> THEN CleanupProc(w, f)
    ELSE LET a == Head(f.todo)
             m == IF a \in DOMAIN w.am THEN w.am[a] ELSE 0
             w1 == [w EXCEPT !.am = [x \in DOMAIN w.am \ {a} |-> w.am[x]]]
             f1 == [f EXCEPT !.todo = Tail(f.todo)]
         IN  IF m # 0 /\ w.mo[m].pc # "done"
             THEN Step([w1 EXCEPT !.mo = CancelTask(w1.mo, m)],
                       [f1 EXCEPT !.pc = "await_agent_monitor", !.mon = m], TRUE)
             ELSE CleanupLoop(w1, f1)

\* cleanup_team, line 1105: the agents of the project, in id order.
CleanupAgents(w, f) ==
    LET agents == SortedSeq({r.id : r \in w.ar})
    IN  CleanupLoop(w, [f EXCEPT !.agents = agents, !.todo = agents, !.mon = 0])

\* cleanup_team, lines 1089-1102: the registry entry and the team monitor are
\* popped; a monitor that is not done is cancelled and awaited.
CleanupStart(w, f) ==
    LET m == w.lm
        w1 == [w EXCEPT !.tm = 0, !.lm = 0]
    IN  IF m # 0 /\ w.mo[m].pc # "done"
        THEN Step([w1 EXCEPT !.mo = CancelTask(w1.mo, m)],
                  [f EXCEPT !.pc = "await_monitor", !.mon = m], TRUE)
        ELSE CleanupAgents(w1, f)

\* create_team_from_preset, lines 154-206, and create_team_from_prompt, lines
\* 263-301, after their cleanup_team: the agent rows, the sessions of the
\* agents whose worktree could be made, the TeamState and its registration;
\* then _start_cli_session suspends in create_subprocess_exec.  wtfail is the
\* position of the agent whose create_worktree raises (0: none does).
CreateBody(w, f) ==
    IF f.op = "create_preset"
    THEN LET defs == TEAM_PRESETS[f.preset]
             n == Len(defs)
             base == NextId(w.ar) - 1
             lead == base + (CHOOSE i \in 1..n : defs[i] /\ \A j \in 1..(i - 1) : ~defs[j])
             sbase == NextId(w.sr) - 1
             ok == {i \in 1..n : i # f.wtfail}
             st == Append(w.st, [team_name |-> f.preset, lead_agent_id |-> lead])
         IN  Step([w EXCEPT
                     !.ar = @ \cup {[id |-> base + i, is_lead |-> defs[i],
                                     parent_agent_id |-> IF defs[i] THEN 0 ELSE lead,
                                     team_name |-> f.preset] : i \in 1..n},
                     !.sr = @ \cup {[id |-> sbase + Cardinality({j \in ok : j <= i}),
                                     agent_id |-> base + i, status |-> "idle"] : i \in ok},
                     !.st = st, !.tm = Len(st)],
                  [f EXCEPT !.pc = "spawn", !.lead = lead], TRUE)
    ELSE LET lead == NextId(w.ar)
             w1 == [w EXCEPT !.ar = @ \cup {[id |-> lead, is_lead |-> TRUE,
                                             parent_agent_id |-> 0,
                                             team_name |-> PromptTeamName]}]
             st == Append(w.st, [team_name |-> PromptTeamName, lead_agent_id |-> lead])
         IN  IF f.wtfail # 0
             THEN Step(w1, f, FALSE)
             ELSE Step([w1 EXCEPT
                          !.sr = @ \cup {[id |-> NextId(w.sr), agent_id |-> lead,
                                          status |-> "starting"]},
                          !.st = st, !.tm = Len(st)],
                       [f EXCEPT !.pc = "spawn", !.lead = lead], TRUE)

\* What follows cleanup_team once it has run to its end: the cleanup call
\* returns, a create call goes on with its body.
AfterCleanup(r) ==
    IF ~r.live \/ r.f.pc # "cleaned" THEN r
    ELSE IF r.f.op = "cleanup" THEN Step(r.w, r.f, FALSE)
    ELSE CreateBody(r.w, r.f)

\* The calls in flight after call i ran up to r; a call that began while
\* others were in flight, or saw another begin, is no longer solo.
PutFrame(i, r) ==
    IF r.live THEN [tcalls EXCEPT ![i] = r.f] ELSE RemoveAt(tcalls, i)

NotSolo(cs) == [i \in 1..Len(cs) |-> [cs[i] EXCEPT !.solo = FALSE]]

BeginCall(f) ==
    /\ ncalls < MaxTeamCalls
    /\ Len(tcalls) < MaxTeamFrames
    /\ ncalls' = ncalls + 1
    /\ LET r == AfterCleanup(CleanupStart(World, f))
       IN  /\ SetWorld(r.w)
           /\ tcalls' = IF r.live THEN Append(NotSolo(tcalls), r.f) ELSE NotSolo(tcalls)
    /\ UNCHANGED aoVars
    /\ UNCHANGED dwVars

\* The preset ids a caller may pass: those of PresetIds and one that
\* TEAM_PRESETS does not hold.
PresetArgs == PresetIds \cup {"nonesuch"}
NoPreset == ""

\* A lookup that falls back on the review preset.
get_preset_OrReview(preset_id) ==
    IF preset_id \in DOMAIN TEAM_PRESETS THEN preset_id ELSE "review"

\* TEAM_PRESETS.get(preset_id), line 147: the preset found, or None.
get_preset(preset_id) ==
    IF preset_id \in DOMAIN TEAM_PRESETS THEN preset_id ELSE NoPreset

\* create_team_from_preset(preset) begins: an unknown preset id returns
\* {"error": ...} (lines 147-149); else cleanup_team first.
CreatePresetCall(preset, wtfail) ==
    IF get_preset(preset) = NoPreset
    THEN /\ ncalls < MaxTeamCalls
         /\ ncalls' = ncalls + 1
         /\ UNCHANGED <<agent_rows, session_rows, states, teams, cli_processes,
                        team_monitors, agent_monitors, tprocs, tmons, tcalls>>
         /\ preset_error' = TRUE
         /\ UNCHANGED aoVars
         /\ UNCHANGED dwVars
    ELSE /\ BeginCall(TeamFrame("create_preset", get_preset(preset), wtfail, tcalls = <<>>))
         /\ preset_error' = FALSE

\* create_team_from_prompt begins: cleanup_team first.
CreatePromptCall(wtfail) ==
    /\ BeginCall(TeamFrame("create_prompt", PromptTeamName, wtfail, tcalls = <<>>))
    /\ UNCHANGED preset_error

\* cleanup_team called on its own.
CleanupCall ==
    /\ BeginCall(TeamFrame("cleanup", "", 0, tcalls = <<>>))
    /\ UNCHANGED preset_error

\* cleanup_team resumes from `await monitor` or `await m`: the awaited task
\* is done.  Its CancelledError is caught; any other exception it ended with
\* leaves cleanup_team, and the call that made it, by raising.
CleanupMonitorDone(i) ==
    /\ tcalls[i].pc \in {"await_monitor", "await_agent_monitor"}
    /\ tmons[tcalls[i].mon].pc = "done"
    /\ LET f == tcalls[i]
           r == IF tmons[f.mon].exc THEN Step(World, f, FALSE)
                ELSE IF f.pc = "await_monitor"
                THEN AfterCleanup(CleanupAgents(World, f))
                ELSE AfterCleanup(CleanupLoop(World, f))
       IN  /\ SetWorld(r.w)
           /\ tcalls' = PutFrame(i, r)
    /\ UNCHANGED <<ncalls, aoVars>>
    /\ UNCHANGED <<preset_error, dwVars>>

\* cleanup_team, line 1126: the lead process exited within the 5 s.
CleanupProcExited(i) ==
    /\ tcalls[i].pc = "wait_proc"
    /\ ~tprocs[tcalls[i].proc].alive
    /\ LET r == AfterCleanup(CleanupDelete(World, tcalls[i]))
       IN  /\ SetWorld(r.w)
           /\ tcalls' = PutFrame(i, r)
    /\ UNCHANGED <<ncalls, aoVars>>
    /\ UNCHANGED <<preset_error, dwVars>>

\* cleanup_team, lines 1127-1134: the 5 s passed; SIGKILL is sent and the
\* call goes on without waiting for the exit.
CleanupProcTimeout(i) ==
    /\ tcalls[i].pc = "wait_proc"
    /\ tprocs[tcalls[i].proc].alive
    /\ LET p == tcalls[i].proc
           r == AfterCleanup(CleanupDelete([World EXCEPT !.pr[p].sig = "kill"],
                                           tcalls[i]))
       IN  /\ SetWorld(r.w)
           /\ tcalls' = PutFrame(i, r)
    /\ UNCHANGED <<ncalls, aoVars>>
    /\ UNCHANGED <<preset_error, dwVars>>

\* The main checkout of the repository (repo_path), and create_worktree,
\* lines 34-36: os.path.join(repo_path, worktree_base, f"agent-{agent_id}").
RepoPath == <<"repo">>
worktree_dir(agent_id) == RepoPath \o <<"worktrees", "agent", agent_id>>

\* The cwd of create_subprocess_exec.  _start_cli_session, line 589:
\* repo_path.  _start_cli_agent_session, line 635: session.worktree_path
\* or repo_path; every AgentSession row is created with the worktree path
\* of its agent (lines 191-195, 285-289, 370-374).
cli_cwd(kind, worktree_path) ==
    IF kind = "lead" THEN RepoPath
    ELSE IF worktree_path # <<>> THEN worktree_path ELSE RepoPath

NewTeamProc(kind, a) ==
    [kind |-> kind, agent |-> a, alive |-> TRUE, sig |-> "none",
     cwd |-> cli_cwd(kind, worktree_dir(a))]

NewTeamMonitor(kind, a, p) ==
    [kind |-> kind, agent |-> a, proc |-> p, pc |-> "start", cancelled |-> FALSE,
     state |-> 0, lines |-> 0, exc |-> FALSE]

\* _start_cli_session, lines 595-611, once create_subprocess_exec returned:
\* the process is registered, the lead's status and the lead's first session
\* (RUNNING) are committed, the monitor task is created and registered, and
\* the create call returns.  With the lead row gone the flush raises
\* StaleDataError and the call ends before the monitor is created.
TeamSpawned(i) ==
    /\ tcalls[i].pc = "spawn"
    /\ tcalls[i].op \in {"create_preset", "create_prompt"}
    /\ LET f == tcalls[i]
           p == Len(tprocs) + 1
           m == Len(tmons) + 1
           ls == FirstSession(session_rows, f.lead)
       IN  /\ tprocs' = Append(tprocs, NewTeamProc("lead", f.lead))
           /\ cli_processes' = p
           /\ IF HasRow(agent_rows, f.lead)
              THEN /\ session_rows' = SetSessionStatus(session_rows, ls, "running")
                   /\ tmons' = Append(tmons, NewTeamMonitor("lead", f.lead, p))
                   /\ team_monitors' = m
              ELSE UNCHANGED <<session_rows, tmons, team_monitors>>
    /\ tcalls' = RemoveAt(tcalls, i)
    /\ UNCHANGED <<agent_rows, states, teams, agent_monitors, ncalls, aoVars>>
    /\ UNCHANGED <<preset_error, dwVars>>

\* start_agent_on_task(agent a, task t), lines 363-399 and 622-634: the first
\* session of the agent, or a new STARTING one (create_worktree raises when
\* ~wtOk: the call ends), the item in_progress and assigned; then
\* _start_cli_agent_session suspends in create_subprocess_exec.
StartOnTaskCall(a, t, wtOk) ==
    /\ ncalls < MaxTeamCalls
    /\ Len(tcalls) < MaxTeamFrames
    /\ HasRow(agent_rows, a)
    /\ ncalls' = ncalls + 1
    /\ LET s0 == FirstSession(session_rows, a)
           s == IF s0 # 0 THEN s0 ELSE NextId(session_rows)
           f == [TeamFrame("start_on_task", "", 0, tcalls = <<>>) EXCEPT
                    !.pc = "spawn", !.agent = a, !.session = s]
       IN  IF s0 = 0 /\ ~wtOk
           THEN /\ tcalls' = NotSolo(tcalls)
                /\ UNCHANGED <<session_rows, task_status, task_assigned>>
           ELSE /\ session_rows' =
                     IF s0 # 0 THEN session_rows
                     ELSE session_rows \cup {[id |-> s, agent_id |-> a, status |-> "starting"]}
                /\ task_status' = [task_status EXCEPT ![t] = "in_progress"]
                /\ task_assigned' = [task_assigned EXCEPT ![t] = a]
                /\ tcalls' = Append(NotSolo(tcalls), f)
    /\ UNCHANGED <<agent_rows, states, teams, cli_processes, team_monitors,
                   agent_monitors, tprocs, tmons>>
    /\ UNCHANGED <<sessions, task_title, procs, processes, monitoring_tasks,
                   monitors, calls, agent_status>>
    /\ UNCHANGED <<preset_error, dwVars>>

\* _start_cli_agent_session, lines 641-649, once create_subprocess_exec
\* returned: the session is committed RUNNING (StaleDataError if its row is
\* gone: the call ends), the monitor task is created and registered.
StartOnTaskSpawned(i) ==
    /\ tcalls[i].pc = "spawn"
    /\ tcalls[i].op = "start_on_task"
    /\ LET f == tcalls[i]
           p == Len(tprocs) + 1
           m == Len(tmons) + 1
       IN  /\ tprocs' = Append(tprocs, NewTeamProc("agent", f.agent))
           /\ IF HasRow(session_rows, f.session)
              THEN /\ session_rows' = SetSessionStatus(session_rows, f.session, "running")
                   /\ tmons' = Append(tmons, NewTeamMonitor("agent", f.agent, p))
                   /\ agent_monitors' =
                        [x \in DOMAIN agent_monitors \cup {f.agent} |->
                            IF x = f.agent THEN m ELSE agent_monitors[x]]
              ELSE UNCHANGED <<session_rows, tmons, agent_monitors>>
    /\ tcalls' = RemoveAt(tcalls, i)
    /\ UNCHANGED <<agent_rows, states, teams, cli_processes, team_monitors,
                   ncalls, aoVars>>
    /\ UNCHANGED <<preset_error, dwVars>>

\* A finished monitor task: what it was for and how it ended.
TeamDone(mon, exc) ==
    [mon EXCEPT !.pc = "done", !.cancelled = FALSE, !.state = 0, !.lines = 0,
                !.proc = 0, !.exc = exc]

\* First step of a monitor task.  A task cancelled before it never runs.
\* _monitor_cli_session reads the registry entry (line 866) and starts to
\* read the process output; _monitor_cli_agent starts to read.
TeamMonStart(m) ==
    /\ tmons[m].pc = "start"
    /\ tmons' = IF tmons[m].cancelled
                THEN [tmons EXCEPT ![m] = TeamDone(tmons[m], FALSE)]
                ELSE [tmons EXCEPT ![m].pc = "read",
                                   ![m].state = IF tmons[m].kind = "lead" THEN teams ELSE 0]
    /\ UNCHANGED <<agent_rows, session_rows, states, teams, cli_processes,
                   team_monitors, agent_monitors, tprocs, tcalls, ncalls, aoVars>>
    /\ UNCHANGED <<preset_error, dwVars>>

\* _monitor_cli_session reads a teammate_spawned line with a TeamState in
\* hand: _handle_cli_teammate_spawned, lines 947-968, inserts the agent.
TeamMonTeammateSpawned(m) ==
    /\ tmons[m].kind = "lead"
    /\ tmons[m].pc = "read"
    /\ ~tmons[m].cancelled
    /\ tprocs[tmons[m].proc].alive
    /\ tmons[m].state # 0
    /\ tmons[m].lines < MaxLines
    /\ agent_rows' = agent_rows \cup
         {[id |-> NextId(agent_rows), is_lead |-> FALSE,
           parent_agent_id |-> states[tmons[m].state].lead_agent_id,
           team_name |-> states[tmons[m].state].team_name]}
    /\ tmons' = [tmons EXCEPT ![m].lines = @ + 1]
    /\ UNCHANGED <<session_rows, states, teams, cli_processes, team_monitors,
                   agent_monitors, tprocs, tcalls, ncalls, aoVars>>
    /\ UNCHANGED <<preset_error, dwVars>>

\* The output ended (the process exited) or the task was cancelled while it
\* read; both monitors catch the CancelledError and go on.
\* _monitor_cli_session, lines 904-915: the lead's status is committed
\* (StaleDataError if its row is gone).  _monitor_cli_agent, lines 933-943:
\* the agent's first session becomes IDLE and the agent's status is
\* committed with it (StaleDataError if the agent row is gone: rolled back).
TeamMonEnd(m) ==
    /\ tmons[m].pc = "read"
    /\ tmons[m].cancelled \/ ~tprocs[tmons[m].proc].alive
    /\ LET mon == tmons[m]
           gone == ~HasRow(agent_rows, mon.agent)
           s == FirstSession(session_rows, mon.agent)
       IN  /\ tmons' = [tmons EXCEPT ![m] = TeamDone(mon, gone)]
           /\ session_rows' =
                IF mon.kind = "agent" /\ ~gone /\ s # 0
                THEN SetSessionStatus(session_rows, s, "idle")
                ELSE session_rows
    /\ UNCHANGED <<agent_rows, states, teams, cli_processes, team_monitors,
                   agent_monitors, tprocs, tcalls, ncalls, aoVars>>
    /\ UNCHANGED <<preset_error, dwVars>>

\* A CLI process exits; its output pipes reach end-of-file.
TeamProcExit(p) ==
    /\ tprocs[p].alive
    /\ tprocs' = [tprocs EXCEPT ![p].alive = FALSE]
    /\ UNCHANGED <<agent_rows, session_rows, states, teams, cli_processes,
                   team_monitors, agent_monitors, tmons, tcalls, ncalls, aoVars>>
    /\ UNCHANGED <<preset_error, dwVars>>

\* DELETE /teams/teammates/{agent_id}, routers/teams.py lines 183-205: a
\* teammate that is not the lead is asked to shut down and its Agent row is
\* deleted and committed.  The sessions table is not touched, and no
\* cascade is declared on sessions.agent_id.
RemoveTeammate(a) ==
    /\ ncalls < MaxTeamCalls
    /\ ncalls' = ncalls + 1
    /\ \E r \in agent_rows : r.id = a /\ ~r.is_lead
    /\ agent_rows' = {r \in agent_rows : r.id # a}
    /\ UNCHANGED <<session_rows, states, teams, cli_processes, team_monitors,
                   agent_monitors, tprocs, tmons, tcalls, aoVars>>
    /\ UNCHANGED <<preset_error, dwVars>>

\* ------------------------------- TaskDispatcher on a project's database
\* The agents and tasks the dispatcher runs start from: any team of up to
\* MaxDAgents agents, or the team of the "fullstack" preset; up to MaxDTasks
\* tasks, open ones with any title, started ones assigned to an agent.
DRoles == {"lead", "backend", "frontend"}
FullstackRoles == <<"lead", "backend", "frontend", "qa">>
RoleSeqs == UNION {[1..n -> DRoles] : n \in 0..MaxDAgents} \cup {FullstackRoles}

DTaskRows(n) ==
    [title : Titles, status : {"todo"}, assigned : 0..n]
    \cup [title : {Title_Misc}, status : {"in_progress", "review", "failed"},
          assigned : 1..n]

TaskSeqs(n) == UNION {[1..k -> DTaskRows(n)] : k \in 0..MaxDTasks}

NoCall == [op |-> "none", arg |-> 0, result |-> <<>>]

\* The columns of the task rows, as auto_assign reads them.
Column(tasks, c) == [t \in DOMAIN tasks |-> tasks[t][c]]

\* TaskDispatcher.auto_assign(db, project_id, task_id): the assignments are
\* written to the rows (assigned_agent_id, status TODO) and committed.
AutoAssignCall(task_id) ==
    /\ LET res == auto_assign(d_roles, Column(d_tasks, "status"),
                              Column(d_tasks, "assigned"), Column(d_tasks, "title"),
                              task_id)
           agentOf == [t \in DOMAIN d_tasks |->
                         IF \E i \in 1..Len(res) : res[i][2] = t
                         THEN res[CHOOSE i \in 1..Len(res) : res[i][2] = t][1]
                         ELSE 0]
       IN  /\ d_tasks' = [t \in DOMAIN d_tasks |->
                            IF agentOf[t] # 0
                            THEN [d_tasks[t] EXCEPT !.assigned = agentOf[t],
                                                    !.status = "todo"]
                            ELSE d_tasks[t]]
           /\ d_call' = [op |-> "auto_assign", arg |-> task_id, result |-> res]
    /\ UNCHANGED <<d_roles, aoVars, teamVars, watchVars, moreVars>>

\* POST /tasks/{task_id}/requeue: TaskDispatcher.requeue_failed(db, task_id).
RequeueCall(task_id) ==
    /\ d_tasks' = requeue_failed(d_tasks, task_id)
    /\ d_call' = [op |-> "requeue_failed", arg |-> task_id,
                  result |-> IF task_id \in DOMAIN d_tasks THEN <<task_id>> ELSE <<>>]
    /\ UNCHANGED <<d_roles, aoVars, teamVars, watchVars, moreVars>>

\* --------------------------------------------------------------- Spec
InitOrchestrator ==
    /\ sessions = <<>>
    /\ task_status = [t \in Tasks |-> "todo"]
    /\ task_assigned = [t \in Tasks |-> 0]
    /\ task_title = [t \in Tasks |-> TitleOf(t)]
    /\ procs = <<>>
    /\ processes = [a \in Agents |-> 0]
    /\ monitoring_tasks = [a \in Agents |-> 0]
    /\ monitors = <<>>
    /\ calls = <<>>
    /\ agent_status = [a \in Agents |-> "none"]

InitTeam ==
    /\ agent_rows = {}
    /\ session_rows = {}
    /\ states = <<>>
    /\ teams = 0
    /\ cli_processes = 0
    /\ team_monitors = 0
    /\ agent_monitors = <<>>
    /\ tprocs = <<>>
    /\ tmons = <<>>
    /\ tcalls = <<>>
    /\ ncalls = 0
    /\ preset_error = FALSE
    /\ command_queue = <<>>
    /\ send_result = "none"
    /\ sdk_mon = NoSdkMonitor
    /\ sdk_stop = FALSE
    /\ sdk_sent = 0
    /\ sdk_runs = <<>>

\* ------------------------------------------------- team_file_watcher.py
\* The files are written by the worker tool, a separate process; the watcher
\* only reads them.  A file is [exists, mtime, valid, ...]: valid = FALSE is
\* a content json.loads rejects (a write caught half-way).  mtime is the
\* reading of the filesystem clock at the write: two writes made at the same
\* reading carry the same mtime.
Members == 1..NumMembers
InboxNames == {"worker"}
TaskNames == {"1.json"}

NoConfig == [exists |-> FALSE, mtime |-> 0, valid |-> TRUE, members |-> {}]
NoInbox == [exists |-> FALSE, mtime |-> 0, valid |-> TRUE, msgs |-> <<>>]
NoTask == [exists |-> FALSE, mtime |-> 0, valid |-> TRUE]

\* dict.get(key, 0)
Get(dict, key) == IF key \in DOMAIN dict THEN dict[key] ELSE 0

\* dict[key] = value
Put(dict, key, value) ==
    [k \in DOMAIN dict \cup {key} |-> IF k = key THEN value ELSE dict[k]]

\* messages[prev_len:]
Slice(messages, prev_len) ==
    IF prev_len >= Len(messages) THEN <<>>
    ELSE SubSeq(messages, prev_len + 1, Len(messages))

\* __init__, lines 33-46.
InitPolling ==
    /\ writes = 0
    /\ appended = [n \in InboxNames |-> 0]
    /\ inbox_rewritten = [n \in InboxNames |-> FALSE]
    /\ config_mtime = 0
    /\ known_members = {}
    /\ inbox_mtimes = <<>>
    /\ inbox_lengths = <<>>
    /\ task_mtimes = <<>>
    /\ task_dir = "none"
    /\ stop_event = FALSE
    /\ observed = {}
    /\ read_failed = {}
    /\ task_update = <<>>
    /\ w_pc = "init"
    /\ member_joined = [m \in Members |-> 0]
    /\ member_left = [m \in Members |-> 0]
    /\ inbox_message = <<>>

\* A watcher not started, with the task directory named after the team
\* and no other.
InitWatcher == InitPolling /\ task_dirs = [by_name |-> TRUE, other |-> "none"]

\* Path.exists() of a directory under tasks/.
dir_exists(d, dirs) ==
    \/ d = "by_name" /\ dirs.by_name
    \/ d = "other" /\ dirs.other # "none"

\* _discover_task_dir, lines 136-158: the new _task_dir.  dirs.other is
\* "recent" for a directory created within the last 60 s, "old" for one
\* created earlier.
discover_task_dir(cur, dirs) ==
    IF cur # "none" /\ dir_exists(cur, dirs) THEN cur
    ELSE IF dirs.by_name THEN "by_name"
    ELSE IF dirs.other = "recent" THEN "other"
    ELSE cur

\* The json files of directory d: task_files are those of the directory
\* named after the team; the other directory holds none.
task_glob(d, dirs) ==
    IF d = "by_name" /\ dir_exists(d, dirs)
    THEN {n \in TaskNames : task_files[n].exists}
    ELSE {}

\* _snapshot_current_state, lines 109-118: the roster file.
snapshot_config(f) ==
    IF ~f.exists THEN [config_mtime |-> 0, known_members |-> {}]
    ELSE [config_mtime |-> f.mtime,
          known_members |-> IF f.valid THEN f.members ELSE {}]

\* A snapshot that records nothing of an inbox.
snapshot_inbox_Nothing(f) == [mtime |-> 0, length |-> 0]

\* _snapshot_current_state, lines 120-128: one inbox file.
snapshot_inbox(f) ==
    [mtime |-> f.mtime, length |-> IF f.valid THEN Len(f.msgs) ELSE 0]

\* `while not self._stop_event.is_set()`, line 82.
loop_Always(stop) == "config"

loop(stop) == IF stop THEN "returned" ELSE "config"

\* start(), lines 79-82: the baseline is taken, the loop is entered (or
\* not, if stop() was called before).
Start ==
    /\ w_pc = "init"
    /\ LET c == snapshot_config(config_file)
           present == {n \in InboxNames : inbox_files[n].exists}
           dir == discover_task_dir(task_dir, task_dirs)
           tasks == task_glob(dir, task_dirs)
       IN  /\ config_mtime' = c.config_mtime
           /\ task_dir' = dir
           /\ known_members' = c.known_members
           /\ inbox_mtimes' = [n \in present |-> snapshot_inbox(inbox_files[n]).mtime]
           /\ inbox_lengths' = [n \in present |-> snapshot_inbox(inbox_files[n]).length]
           /\ task_mtimes' = [n \in tasks |-> task_files[n].mtime]
           /\ observed' = tasks
    /\ w_pc' = loop(stop_event)
    /\ UNCHANGED <<stop_event, read_failed>>
    /\ UNCHANGED <<fileVars, callbackVars>>
    /\ UNCHANGED <<aoVars, teamVars, dispVars, moreVars>>

\* _poll_config without line 195 (the last-known set is kept).
poll_config_KeepsKnown(f, mtime, known) ==
    IF ~f.exists \/ f.mtime <= mtime
    THEN [config_mtime |-> mtime, known_members |-> known, joined |-> {}, left |-> {}]
    ELSE IF ~f.valid
    THEN [config_mtime |-> f.mtime, known_members |-> known, joined |-> {}, left |-> {}]
    ELSE [config_mtime |-> f.mtime, known_members |-> known,
          joined |-> f.members \ known, left |-> known \ f.members]

\* _poll_config, lines 162-198, on the roster file f: the new _config_mtime
\* and _known_members, and the members the two callbacks are awaited with.
poll_config(f, mtime, known) ==
    IF ~f.exists \/ f.mtime <= mtime
    THEN [config_mtime |-> mtime, known_members |-> known, joined |-> {}, left |-> {}]
    ELSE IF ~f.valid
    THEN [config_mtime |-> f.mtime, known_members |-> known, joined |-> {}, left |-> {}]
    ELSE [config_mtime |-> f.mtime, known_members |-> f.members,
          joined |-> f.members \ known, left |-> known \ f.members]

\* One tick of the loop, line 84: await self._poll_config().
PollConfig ==
    /\ w_pc = "config"
    /\ LET r == poll_config(config_file, config_mtime, known_members)
       IN  /\ config_mtime' = r.config_mtime
           /\ known_members' = r.known_members
           /\ member_joined' = [m \in Members |->
                                  member_joined[m] + IF m \in r.joined THEN 1 ELSE 0]
           /\ member_left' = [m \in Members |->
                                member_left[m] + IF m \in r.left THEN 1 ELSE 0]
    /\ w_pc' = "inboxes"
    /\ UNCHANGED <<fileVars, inbox_mtimes, inbox_lengths, inbox_message>>
    /\ UNCHANGED <<task_mtimes, task_dir, stop_event, observed, read_failed, task_update>>
    /\ UNCHANGED <<aoVars, teamVars, dispVars, moreVars>>

\* The body of _poll_inboxes that passes the whole list on every read.
poll_inbox_FromStart(f, mtime, prev_len) ==
    IF f.mtime <= mtime
    THEN [read |-> FALSE, mtime |-> mtime, length |-> prev_len, new_messages |-> <<>>]
    ELSE IF ~f.valid
    THEN [read |-> FALSE, mtime |-> f.mtime, length |-> prev_len, new_messages |-> <<>>]
    ELSE [read |-> TRUE, mtime |-> f.mtime, length |-> Len(f.msgs),
          new_messages |-> f.msgs]

\* _poll_inboxes, lines 208-227, for one inbox file f, given
\* _inbox_mtimes.get(name, 0) and _inbox_lengths.get(name, 0).  read: the
\* length was stored (line 223).
poll_inbox(f, mtime, prev_len) ==
    IF f.mtime <= mtime
    THEN [read |-> FALSE, mtime |-> mtime, length |-> prev_len, new_messages |-> <<>>]
    ELSE IF ~f.valid
    THEN [read |-> FALSE, mtime |-> f.mtime, length |-> prev_len, new_messages |-> <<>>]
    ELSE [read |-> TRUE, mtime |-> f.mtime, length |-> Len(f.msgs),
          new_messages |-> Slice(f.msgs, prev_len)]

\* The inbox files in glob order.
RECURSIVE PollEach(_, _, _, _)
PollEach(names, mtimes, lengths, log) ==
    IF names = <<>> THEN [mtimes |-> mtimes, lengths |-> lengths, log |-> log]
    ELSE LET n == Head(names)
             r == poll_inbox(inbox_files[n], Get(mtimes, n), Get(lengths, n))
         IN  PollEach(Tail(names),
                      IF r.mtime > Get(mtimes, n) THEN Put(mtimes, n, r.mtime) ELSE mtimes,
                      IF r.read THEN Put(lengths, n, r.length) ELSE lengths,
                      log \o [i \in 1..Len(r.new_messages) |-> <<n, r.new_messages[i]>>])

SetToSeq(S) == CHOOSE q \in [1..Cardinality(S) -> S] : \A x \in S : \E i \in DOMAIN q : q[i] = x

\* One tick of the loop, line 85: await self._poll_inboxes().
PollInboxes ==
    /\ w_pc = "inboxes"
    /\ LET present == {n \in InboxNames : inbox_files[n].exists}
           r == PollEach(SetToSeq(present), inbox_mtimes, inbox_lengths, inbox_message)
           one(n) == poll_inbox(inbox_files[n], Get(inbox_mtimes, n), Get(inbox_lengths, n))
       IN  /\ inbox_mtimes' = r.mtimes
           /\ inbox_lengths' = r.lengths
           /\ inbox_message' = r.log
           /\ read_failed' = {n \in InboxNames :
                                IF n \in present /\ one(n).mtime > Get(inbox_mtimes, n)
                                THEN ~one(n).read ELSE n \in read_failed}
    /\ w_pc' = "tasks"
    /\ UNCHANGED <<task_mtimes, task_dir, stop_event, observed, task_update>>
    /\ UNCHANGED <<fileVars, config_mtime, known_members, member_joined, member_left>>
    /\ UNCHANGED <<aoVars, teamVars, dispVars, moreVars>>

\* The body of _poll_tasks that stores the mtime after the parse.
poll_task_StoresAfterParse(f, prev) ==
    IF f.mtime <= prev THEN [mtime |-> prev, fired |-> FALSE, is_new |-> FALSE]
    ELSE IF ~f.valid THEN [mtime |-> prev, fired |-> FALSE, is_new |-> FALSE]
    ELSE [mtime |-> f.mtime, fired |-> TRUE, is_new |-> prev = 0]

\* _poll_tasks, lines 241-254, for one task file f, given
\* _task_mtimes.get(name, 0): the mtime stored, whether the callback is
\* awaited, and with which flag.
poll_task(f, prev) ==
    IF f.mtime <= prev THEN [mtime |-> prev, fired |-> FALSE, is_new |-> FALSE]
    ELSE IF ~f.valid THEN [mtime |-> f.mtime, fired |-> FALSE, is_new |-> FALSE]
    ELSE [mtime |-> f.mtime, fired |-> TRUE, is_new |-> prev = 0]

\* The task files in glob order.
RECURSIVE PollTaskEach(_, _, _)
PollTaskEach(names, mtimes, log) ==
    IF names = <<>> THEN [mtimes |-> mtimes, log |-> log]
    ELSE LET n == Head(names)
             r == poll_task(task_files[n], Get(mtimes, n))
         IN  PollTaskEach(Tail(names),
                          IF r.mtime > Get(mtimes, n) THEN Put(mtimes, n, r.mtime) ELSE mtimes,
                          IF r.fired THEN Append(log, <<n, r.is_new>>) ELSE log)

\* One tick of the loop, line 86: await self._poll_tasks().
PollTasks ==
    /\ w_pc = "tasks"
    /\ LET dir == discover_task_dir(task_dir, task_dirs)
           present == task_glob(dir, task_dirs)
           r == PollTaskEach(SetToSeq(present), task_mtimes, task_update)
       IN  /\ task_dir' = dir
           /\ task_mtimes' = r.mtimes
           /\ task_update' = r.log
           /\ observed' = observed \cup present
    /\ w_pc' = "sleep"
    /\ UNCHANGED <<fileVars, config_mtime, known_members, inbox_mtimes, inbox_lengths,
                   stop_event, read_failed, member_joined, member_left, inbox_message>>
    /\ UNCHANGED <<aoVars, teamVars, dispVars, moreVars>>

\* Lines 90-97: the wait on the stop event ends: the event was set (break),
\* or poll_interval has passed (continue, and line 82 is evaluated).
Wake ==
    /\ w_pc = "sleep"
    /\ w_pc' = loop(stop_event)
    /\ UNCHANGED <<fileVars, config_mtime, known_members, inbox_mtimes, inbox_lengths,
                   task_mtimes, task_dir, stop_event, observed, read_failed, callbackVars>>
    /\ UNCHANGED <<aoVars, teamVars, dispVars, moreVars>>

\* stop(), lines 101-103.
Stop ==
    /\ ~stop_event
    /\ stop_event' = TRUE
    /\ UNCHANGED <<fileVars, config_mtime, known_members, inbox_mtimes, inbox_lengths,
                   task_mtimes, task_dir, observed, read_failed, w_pc, callbackVars>>
    /\ UNCHANGED <<aoVars, teamVars, dispVars, moreVars>>

\* ---- the worker tool and the filesystem
\* The filesystem clock moves on.
Tick ==
    /\ now < MaxClock
    /\ now' = now + 1
    /\ UNCHANGED <<task_dirs, config_file, inbox_files, task_files, writes, appended,
                   inbox_rewritten>>
    /\ UNCHANGED <<watcherVars, callbackVars>>
    /\ UNCHANGED <<aoVars, teamVars, dispVars, moreVars>>

CanWrite == w_pc # "init" /\ writes < MaxWrites

\* The tool writes a roster; valid = FALSE: the write is seen half-way.
WriteConfig(members, valid) ==
    /\ CanWrite
    /\ config_file' = [exists |-> TRUE, mtime |-> now, valid |-> valid,
                       members |-> members]
    /\ writes' = writes + 1
    /\ UNCHANGED <<task_dirs, now, inbox_files, task_files, appended, inbox_rewritten>>
    /\ UNCHANGED <<watcherVars, callbackVars>>
    /\ UNCHANGED <<aoVars, teamVars, dispVars, moreVars>>

\* The tool appends one message (the next number) to an inbox, creating the
\* file if needed.
AppendInbox(n) ==
    /\ CanWrite
    /\ inbox_files' = [inbox_files EXCEPT ![n] =
                          [exists |-> TRUE, mtime |-> now, valid |-> TRUE,
                           msgs |-> Append(@.msgs, appended[n] + 1)]]
    /\ appended' = [appended EXCEPT ![n] = @ + 1]
    /\ writes' = writes + 1
    /\ UNCHANGED <<task_dirs, now, config_file, task_files, inbox_rewritten>>
    /\ UNCHANGED <<watcherVars, callbackVars>>
    /\ UNCHANGED <<aoVars, teamVars, dispVars, moreVars>>

\* An append is seen half-way: the file does not parse until the next write.
TornInbox(n) ==
    /\ CanWrite
    /\ inbox_files[n].exists /\ inbox_files[n].valid
    /\ inbox_files' = [inbox_files EXCEPT ![n].valid = FALSE, ![n].mtime = now]
    /\ writes' = writes + 1
    /\ UNCHANGED <<task_dirs, now, config_file, task_files, appended, inbox_rewritten>>
    /\ UNCHANGED <<watcherVars, callbackVars>>
    /\ UNCHANGED <<aoVars, teamVars, dispVars, moreVars>>

\* The tool rewrites an inbox: it keeps the first `keep` messages and puts
\* one new message after them (keep < Len - 1: the file shrinks).
RewriteInbox(n, keep) ==
    /\ CanWrite
    /\ inbox_files[n].exists
    /\ keep < Len(inbox_files[n].msgs)
    /\ inbox_files' = [inbox_files EXCEPT ![n] =
                          [exists |-> TRUE, mtime |-> now, valid |-> TRUE,
                           msgs |-> Append(SubSeq(@.msgs, 1, keep), appended[n] + 1)]]
    /\ appended' = [appended EXCEPT ![n] = @ + 1]
    /\ inbox_rewritten' = [inbox_rewritten EXCEPT ![n] = TRUE]
    /\ writes' = writes + 1
    /\ UNCHANGED <<task_dirs, now, config_file, task_files>>
    /\ UNCHANGED <<watcherVars, callbackVars>>
    /\ UNCHANGED <<aoVars, teamVars, dispVars, moreVars>>

\* The tool writes a task file; valid = FALSE: the write is seen half-way.
WriteTask(n, valid) ==
    /\ CanWrite
    /\ task_dirs.by_name
    /\ task_files' = [task_files EXCEPT ![n] =
                         [exists |-> TRUE, mtime |-> now, valid |-> valid]]
    /\ writes' = writes + 1
    /\ UNCHANGED <<task_dirs, now, config_file, inbox_files, appended, inbox_rewritten>>
    /\ UNCHANGED <<watcherVars, callbackVars>>
    /\ UNCHANGED <<aoVars, teamVars, dispVars, moreVars>>

\* The tool creates the task directory named after the team.
MakeNameDir ==
    /\ ~task_dirs.by_name
    /\ task_dirs' = [task_dirs EXCEPT !.by_name = TRUE]
    /\ UNCHANGED <<now, config_file, inbox_files, task_files, writes, appended, inbox_rewritten>>
    /\ UNCHANGED <<watcherVars, callbackVars>>
    /\ UNCHANGED <<aoVars, teamVars, dispVars, moreVars>>

\* Another directory is created under tasks/.
MakeOtherDir ==
    /\ task_dirs.other = "none"
    /\ task_dirs' = [task_dirs EXCEPT !.other = "recent"]
    /\ UNCHANGED <<now, config_file, inbox_files, task_files, writes, appended, inbox_rewritten>>
    /\ UNCHANGED <<watcherVars, callbackVars>>
    /\ UNCHANGED <<aoVars, teamVars, dispVars, moreVars>>

\* 60 s have passed since the other directory was created.
OtherDirAges ==
    /\ task_dirs.other = "recent"
    /\ task_dirs' = [task_dirs EXCEPT !.other = "old"]
    /\ UNCHANGED <<now, config_file, inbox_files, task_files, writes, appended, inbox_rewritten>>
    /\ UNCHANGED <<watcherVars, callbackVars>>
    /\ UNCHANGED <<aoVars, teamVars, dispVars, moreVars>>

\* The other directory is removed.
RemoveOtherDir ==
    /\ task_dirs.other # "none"
    /\ task_dirs' = [task_dirs EXCEPT !.other = "none"]
    /\ UNCHANGED <<now, config_file, inbox_files, task_files, writes, appended, inbox_rewritten>>
    /\ UNCHANGED <<watcherVars, callbackVars>>
    /\ UNCHANGED <<aoVars, teamVars, dispVars, moreVars>>

\* An inbox cannot be read for a while (read_text raises): nothing is
\* written to it, its mtime stays.
InboxUnreadable(n) ==
    /\ w_pc # "init"
    /\ inbox_files[n].exists /\ inbox_files[n].valid
    /\ inbox_files' = [inbox_files EXCEPT ![n].valid = FALSE]
    /\ UNCHANGED <<task_dirs, now, config_file, task_files, writes, appended, inbox_rewritten>>
    /\ UNCHANGED <<watcherVars, callbackVars>>
    /\ UNCHANGED <<aoVars, teamVars, dispVars, moreVars>>

\* The inbox can be read again, as it was written.
InboxReadable(n) ==
    /\ inbox_files[n].exists /\ ~inbox_files[n].valid
    /\ inbox_files' = [inbox_files EXCEPT ![n].valid = TRUE]
    /\ UNCHANGED <<task_dirs, now, config_file, task_files, writes, appended, inbox_rewritten>>
    /\ UNCHANGED <<watcherVars, callbackVars>>
    /\ UNCHANGED <<aoVars, teamVars, dispVars, moreVars>>

\* ------------------------------------ unified_orchestrator.py: communication
\* TeamState.__init__, line 90: every TeamState is given an asyncio.Queue, so
\* `state.command_queue is not None` (line 1057) holds of every TeamState.
HasCommandQueue == TRUE

\* send_command_to_lead, lines 1052-1071, with the registry entry tm of the
\* project (0: none): the queues afterwards and the dict returned.
send_command_to_lead(tm, queues, text) ==
    IF tm = 0
    THEN [queues |-> queues, result |-> "error"]
    ELSE IF HasCommandQueue
    THEN [queues |-> Put(queues, tm, Append(IF tm \in DOMAIN queues THEN queues[tm]
                                                                    ELSE <<>>, text)),
          result |-> "sent"]
    ELSE IF cli_processes # 0 /\ tprocs[cli_processes].alive
    THEN [queues |-> queues, result |-> "sent"]
    ELSE [queues |-> queues, result |-> "error"]

\* The three entry points: send_command_to_lead, and broadcast_message and
\* send_message (lines 1073-1081), which call it with a text of their own.
SendKinds == {"command", "broadcast", "message"}

SendCall(kind) ==
    /\ ncalls < MaxTeamCalls
    /\ ncalls' = ncalls + 1
    /\ LET r == send_command_to_lead(teams, command_queue, kind)
       IN  /\ command_queue' = r.queues
           /\ send_result' = r.result
    /\ UNCHANGED <<agent_rows, session_rows, states, teams, cli_processes,
                   team_monitors, agent_monitors, tprocs, tmons, tcalls, aoVars>>
    /\ UNCHANGED <<sdk_mon, sdk_stop, sdk_sent, sdk_runs>>
    /\ UNCHANGED <<preset_error, dispVars, watchVars, gitVars, streamVars>>

\* ------------------------------- unified_orchestrator.py: the SDK monitor
\* _monitor_sdk_session of the lead of the team registered as TeamState 1,
\* with the commands sent to it.  pc: "top" (line 675), "query" (a query
\* runs, line 677), "wait" (lines 750-758), "done".
SdkTeam == 1
SdkQueue == IF SdkTeam \in DOMAIN command_queue THEN command_queue[SdkTeam] ELSE <<>>
SdkAlive == sdk_mon.pc \in {"top", "query", "wait"}

\* A queue that hands out the newest text first.
queue_get_Newest(q) == [item |-> q[Len(q)], rest |-> SubSeq(q, 1, Len(q) - 1)]

\* asyncio.Queue.get(): the oldest text, and the queue without it.
queue_get(q) == [item |-> Head(q), rest |-> Tail(q)]

SdkFrame == UNCHANGED <<aoVars, teamVars, dispVars, watchVars, gitVars, streamVars>>

\* POST /command: send_command_to_lead with the next command.
SdkSend ==
    /\ sdk_sent < MaxCmds
    /\ LET r == send_command_to_lead(teams, command_queue, sdk_sent + 1)
       IN  /\ command_queue' = r.queues
           /\ send_result' = r.result
    /\ sdk_sent' = sdk_sent + 1
    /\ UNCHANGED <<sdk_mon, sdk_stop, sdk_runs>>
    /\ SdkFrame

\* Line 675: the loop condition; a query is started with current_prompt,
\* or the loop is left (finally, line 783: the session id is dropped).
SdkLoopTop ==
    /\ sdk_mon.pc = "top" /\ ~sdk_mon.cancelled
    /\ IF sdk_stop
       THEN /\ sdk_mon' = [sdk_mon EXCEPT !.pc = "done", !.sid = FALSE]
            /\ UNCHANGED sdk_runs
       ELSE /\ sdk_mon' = [sdk_mon EXCEPT !.pc = "query"]
            /\ sdk_runs' = Append(sdk_runs, [prompt |-> sdk_mon.prompt, done |-> FALSE])
    /\ UNCHANGED <<command_queue, send_result, sdk_stop, sdk_sent>>
    /\ SdkFrame

\* Lines 677-745: the query ends.  "result": with a ResultMessage that
\* carries a session id (lines 715-718).  "no_result": without one.
\* "raises": by an exception (lines 780-783: the monitor ends).
SdkOutcomes == {"result", "no_result", "raises"}

SdkQueryEnds(outcome) ==
    /\ sdk_mon.pc = "query" /\ ~sdk_mon.cancelled
    /\ sdk_runs' = [sdk_runs EXCEPT ![Len(sdk_runs)].done = TRUE]
    /\ sdk_mon' = CASE outcome = "result" -> [sdk_mon EXCEPT !.pc = "wait", !.sid = TRUE]
                     [] outcome = "no_result" -> [sdk_mon EXCEPT !.pc = "wait"]
                     [] outcome = "raises" -> [sdk_mon EXCEPT !.pc = "done", !.sid = FALSE]
    /\ UNCHANGED <<command_queue, send_result, sdk_stop, sdk_sent>>
    /\ SdkFrame

\* Lines 750-776: the wait for a command ends.  The stop event is set: the
\* loop is left.  A command is taken from the queue: it becomes
\* current_prompt if there is a session id to resume, else the loop is
\* left (lines 774-776).
SdkWait ==
    /\ sdk_mon.pc = "wait" /\ ~sdk_mon.cancelled
    /\ sdk_stop \/ SdkQueue # <<>>
    /\ IF sdk_stop
       THEN /\ sdk_mon' = [sdk_mon EXCEPT !.pc = "done", !.sid = FALSE]
            /\ UNCHANGED command_queue
       ELSE LET g == queue_get(SdkQueue)
            IN  /\ command_queue' = [command_queue EXCEPT ![SdkTeam] = g.rest]
                /\ sdk_mon' = IF sdk_mon.sid
                               THEN [sdk_mon EXCEPT !.pc = "top", !.prompt = g.item]
                               ELSE [sdk_mon EXCEPT !.pc = "done"]
    /\ UNCHANGED <<send_result, sdk_stop, sdk_sent, sdk_runs>>
    /\ SdkFrame

\* cleanup_team, lines 1088-1100: the registry entry is popped, the stop
\* event set, the monitor cancelled and awaited; with the monitor done
\* already the call goes on at once and deletes the rows (lines 1136-1150).
SdkCleanup ==
    /\ teams = SdkTeam
    /\ teams' = 0
    /\ sdk_stop' = TRUE
    /\ IF SdkAlive
       THEN /\ sdk_mon' = [sdk_mon EXCEPT !.cancelled = TRUE]
            /\ UNCHANGED <<agent_rows, session_rows>>
       ELSE /\ agent_rows' = {}
            /\ session_rows' = {}
            /\ UNCHANGED sdk_mon
    /\ UNCHANGED <<command_queue, send_result, sdk_sent, sdk_runs>>
    /\ UNCHANGED <<states, cli_processes, team_monitors, agent_monitors, tprocs, tmons,
                   tcalls, ncalls, preset_error>>
    /\ UNCHANGED <<aoVars, dispVars, watchVars, gitVars, streamVars>>

\* The cancelled monitor resumes with CancelledError (lines 778-783) and
\* ends; cleanup_team, which awaited it, goes on and deletes the rows.
SdkCancelled ==
    /\ sdk_mon.cancelled /\ SdkAlive
    /\ sdk_mon' = [sdk_mon EXCEPT !.pc = "done", !.sid = FALSE, !.cancelled = FALSE]
    /\ sdk_runs' = IF sdk_mon.pc = "query"
                    THEN [sdk_runs EXCEPT ![Len(sdk_runs)].done = TRUE]
                    ELSE sdk_runs
    /\ agent_rows' = {}
    /\ session_rows' = {}
    /\ UNCHANGED <<command_queue, send_result, sdk_stop, sdk_sent>>
    /\ UNCHANGED <<states, teams, cli_processes, team_monitors, agent_monitors, tprocs,
                   tmons, tcalls, ncalls, preset_error>>
    /\ UNCHANGED <<aoVars, dispVars, watchVars, gitVars, streamVars>>

\* ------------------------------------------------------- git_workspace.py
\* The repository as the git commands of GitWorkspaceManager see it.  Per
\* agent: the directory worktrees/agent-{id} (exists, dirty: it holds files
\* that are not committed), its entry in the repository's worktree list
\* (registered), and the branch chibi/{project}/agent-{id} (branch: it
\* exists; base: the commit it was created at; ahead: the commits added to
\* it since).  A registered worktree has its branch checked out.
GitAgents == 1..NumWorktrees

NoWorktree == [exists |-> FALSE, registered |-> FALSE, dirty |-> FALSE,
               branch |-> FALSE, base |-> 0, ahead |-> 0]

GitOut(g, rc) == [g |-> g, rc |-> rc]

\* git worktree remove <dir> --force
worktree_remove(g) ==
    IF g.exists /\ g.registered
    THEN GitOut([g EXCEPT !.exists = FALSE, !.registered = FALSE, !.dirty = FALSE], 0)
    ELSE GitOut(g, 128)

\* A branch -D that reports success and deletes nothing.
branch_delete_Keeps(g) == GitOut(g, 0)

\* git branch -D <branch>: refused for a branch that is missing or checked
\* out in a registered worktree.
branch_delete(g) ==
    IF g.branch /\ ~g.registered
    THEN GitOut([g EXCEPT !.branch = FALSE, !.base = 0, !.ahead = 0], 0)
    ELSE GitOut(g, 1)

\* git worktree add <dir> -b <branch>: a new branch at HEAD, checked out
\* in a new directory.
worktree_add_new(g, head) ==
    IF ~g.exists /\ ~g.registered /\ ~g.branch
    THEN GitOut([exists |-> TRUE, registered |-> TRUE, dirty |-> FALSE,
                 branch |-> TRUE, base |-> head, ahead |-> 0], 0)
    ELSE GitOut(g, 128)

\* git worktree add <dir> <branch>: the existing branch, checked out in a
\* new directory.
worktree_add_existing(g) ==
    IF ~g.exists /\ ~g.registered /\ g.branch
    THEN GitOut([g EXCEPT !.exists = TRUE, !.registered = TRUE, !.dirty = FALSE], 0)
    ELSE GitOut(g, 128)

\* git worktree prune
worktree_prune(g) ==
    IF g.registered /\ ~g.exists THEN [g EXCEPT !.registered = FALSE] ELSE g

\* shutil.rmtree(<dir>)
rmtree(g) == [g EXCEPT !.exists = FALSE, !.dirty = FALSE]

\* create_worktree, lines 34-69: the repository afterwards and whether the
\* call returned (ok) or raised RuntimeError.
create_worktree(g, head) ==
    LET g1 == IF g.exists THEN worktree_remove(g).g ELSE g
        g2 == branch_delete(g1).g
        r3 == worktree_add_new(g2, head)
        r4 == worktree_add_existing(r3.g)
    IN  IF r3.rc = 0 THEN [g |-> r3.g, ok |-> TRUE]
        ELSE IF r4.rc = 0 THEN [g |-> r4.g, ok |-> TRUE]
        ELSE [g |-> r4.g, ok |-> FALSE]

NoGitCall == [agent |-> 0, ok |-> FALSE, had_dir |-> FALSE, had_dirty |-> FALSE,
              had_ahead |-> 0]

\* GitWorkspaceManager.create_worktree(repo_path, agent_id, project_name).
CreateWorktree(a) ==
    /\ creates[a] < MaxCreates
    /\ LET r == create_worktree(worktrees[a], repo_head)
       IN  /\ worktrees' = [worktrees EXCEPT ![a] = r.g]
           /\ git_call' = [agent |-> a, ok |-> r.ok, had_dir |-> worktrees[a].exists,
                           had_dirty |-> worktrees[a].dirty,
                           had_ahead |-> worktrees[a].ahead]
    /\ creates' = [creates EXCEPT ![a] = @ + 1]
    /\ UNCHANGED <<repo_head, project_name, merge_plan>>
    /\ UNCHANGED <<aoVars, teamVars, dispVars, watchVars, cmdVars, streamVars>>

\* The worker writes files in its worktree.
WorkerWrites(a) ==
    /\ worktrees[a].exists /\ ~worktrees[a].dirty
    /\ worktrees' = [worktrees EXCEPT ![a].dirty = TRUE]
    /\ UNCHANGED <<repo_head, creates, git_call, project_name, merge_plan>>
    /\ UNCHANGED <<aoVars, teamVars, dispVars, watchVars, cmdVars, streamVars>>

\* commit_changes, lines 119-133: git add -A, git commit --allow-empty in
\* the worktree; both fail outside a worktree.
CommitChanges(a) ==
    /\ worktrees[a].exists /\ worktrees[a].registered
    /\ worktrees[a].ahead < MaxCommits
    /\ worktrees' = [worktrees EXCEPT ![a].dirty = FALSE, ![a].ahead = @ + 1]
    /\ UNCHANGED <<repo_head, creates, git_call, project_name, merge_plan>>
    /\ UNCHANGED <<aoVars, teamVars, dispVars, watchVars, cmdVars, streamVars>>

\* A commit is added to the repository's HEAD.
HeadMoves ==
    /\ repo_head < MaxHead
    /\ repo_head' = repo_head + 1
    /\ UNCHANGED <<worktrees, creates, git_call, project_name, merge_plan>>
    /\ UNCHANGED <<aoVars, teamVars, dispVars, watchVars, cmdVars, streamVars>>

\* cleanup_worktree, lines 135-153.
cleanup_worktree(g) ==
    LET r == worktree_remove(g)
    IN  worktree_prune(IF r.rc # 0 /\ r.g.exists THEN rmtree(r.g) ELSE r.g)

CleanupWorktree(a) ==
    /\ worktrees[a] # cleanup_worktree(worktrees[a])
    /\ worktrees' = [worktrees EXCEPT ![a] = cleanup_worktree(worktrees[a])]
    /\ UNCHANGED <<repo_head, creates, git_call, project_name, merge_plan>>
    /\ UNCHANGED <<aoVars, teamVars, dispVars, watchVars, cmdVars, streamVars>>

\* cleanup_all, lines 155-162: the worktrees directory is removed, then
\* git worktree prune.
CleanupAll ==
    /\ \E a \in GitAgents : worktrees[a].exists
    /\ worktrees' = [a \in GitAgents |-> worktree_prune(rmtree(worktrees[a]))]
    /\ UNCHANGED <<repo_head, creates, git_call, project_name, merge_plan>>
    /\ UNCHANGED <<aoVars, teamVars, dispVars, watchVars, cmdVars, streamVars>>

\* The project names of the model: the default of create_worktree and
\* another one.
ProjectNames == {"project", "shop"}

\* create_worktree, line 33: f"chibi/{project_name}/agent-{agent_id}".
branch_name(name, agent_id) == <<"chibi", name, "agent", agent_id>>

\* The agent branches the repository holds.
Branches == {branch_name(project_name, a) : a \in {x \in GitAgents : worktrees[x].branch}}

\* git diff HEAD <branch>: the return code; an unknown revision is fatal.
git_diff(branch) == IF branch \in Branches THEN 0 ELSE 128

\* create_merge_plan, line 172: f"chibi/project/agent-{agent_id}".
plan_branch(agent_id) == <<"chibi", "project", "agent", agent_id>>

\* create_merge_plan, lines 170-188: one entry for each agent whose diff
\* returned 0.
RECURSIVE create_merge_plan(_)
create_merge_plan(agent_ids) ==
    IF agent_ids = <<>> THEN <<>>
    ELSE LET branch == plan_branch(Head(agent_ids))
             rest == create_merge_plan(Tail(agent_ids))
         IN  IF git_diff(branch) = 0
             THEN <<[agent_id |-> Head(agent_ids), branch |-> branch]>> \o rest
             ELSE rest

NoPlan == [agent_ids |-> <<>>, plan |-> <<>>]

\* GET /projects/{id}/merge-plan: GitWorkspaceManager.create_merge_plan.
CreateMergePlan(ids) ==
    /\ ids # {}
    /\ merge_plan' = [agent_ids |-> SortedSeq(ids),
                      plan |-> create_merge_plan(SortedSeq(ids))]
    /\ UNCHANGED <<repo_head, worktrees, creates, git_call, project_name>>
    /\ UNCHANGED <<aoVars, teamVars, dispVars, watchVars, cmdVars, streamVars>>

\* A repository without worktrees or agent branches.
InitGit ==
    /\ repo_head = 0
    /\ worktrees = [a \in GitAgents |-> NoWorktree]
    /\ creates = [a \in GitAgents |-> 0]
    /\ git_call = NoGitCall
    /\ project_name = "project"
    /\ merge_plan = NoPlan

\* ------------------------------- agent_orchestrator.py: workers side by side
\* dispatch_tasks on NumWorkers assignments (worker w on item w) and the
\* monitors of the workers it starts, with the channel of each adapter
\* between a worker and its monitor: the stdout pipe of the CLI subprocess
\* (ClaudeCodeAdapter), the asyncio.Queue of AnthropicSDKAdapter and of
\* ClaudeAgentSDKAdapter.  An event is [n, type, sentinel]: n is its
\* position in the worker's output, 0 for an event the adapter makes up.
Workers == 1..NumWorkers
AdapterModes == {"cli", "sdk", "agent-sdk"}
IsQueueAdapter(mode) == mode \in {"sdk", "agent-sdk"}
Terminal(type) == type \in {"complete", "error"}

\* The events a worker produces here: a completion, an error, and a line
\* of text without a sentinel phrase.
StreamEvents == {ev \in Events : ev.type = "text" => ~ev.sentinel}

NoEvent == [n |-> 0, type |-> "none", sentinel |-> FALSE]
NoMonitor == [pc |-> "none", completed_ok |-> FALSE, errored |-> FALSE,
              last |-> "none", broken |-> FALSE, cur |-> NoEvent]

\* The loop of dispatch_tasks leaves off at the first start that raises.
after_failure_Abort(i) == NumWorkers + 1

\* dispatch_tasks, lines 165-171: a start_agent that raised is logged and
\* the loop goes on with the next assignment.
after_failure(i) == i + 1

\* dispatch_tasks, lines 159-171, one turn of its loop: start_agent for the
\* next assignment, with what happens at its launch.  "worktree":
\* create_worktree raises, start_agent re-raises (lines 72-79), nothing of
\* the worker is written.  "spawn": start_session raises, session and item
\* are set FAILED (lines 129-135) and start_agent returns.  "ok": the
\* session is RUNNING and its monitor task is created (lines 117-127).
DispatchStart(outcome) ==
    /\ next_assignment <= NumWorkers
    /\ LET w == next_assignment
       IN  CASE outcome = "worktree" ->
                  /\ next_assignment' = after_failure(w)
                  /\ UNCHANGED <<tasks_started, item_status, sess_status, running, wmon>>
             [] outcome = "spawn" ->
                  /\ next_assignment' = w + 1
                  /\ tasks_started' = tasks_started \cup {w}
                  /\ sess_status' = [sess_status EXCEPT ![w] = "failed"]
                  /\ item_status' = [item_status EXCEPT ![w] = "failed"]
                  /\ UNCHANGED <<running, wmon>>
             [] outcome = "ok" ->
                  /\ next_assignment' = w + 1
                  /\ tasks_started' = tasks_started \cup {w}
                  /\ sess_status' = [sess_status EXCEPT ![w] = "running"]
                  /\ item_status' = [item_status EXCEPT ![w] = "in_progress"]
                  /\ running' = [running EXCEPT ![w] = TRUE]
                  /\ wmon' = [wmon EXCEPT ![w] = [NoMonitor EXCEPT !.pc = "stream"]]
    /\ UNCHANGED <<adapter_mode, produced, channel, closed, sink, committed>>
    /\ UNCHANGED <<aoVars, teamVars, dispVars, watchVars, cmdVars, gitVars>>

\* The worker produces its next event.  With a queue adapter a "complete"
\* or "error" event is the last one, and _running is cleared in the same
\* step (anthropic_adapter.py lines 519-535, agent_sdk_adapter.py lines
\* 287-297: queue.put on an unbounded queue, then the finally clause).
Produce(w, ev) ==
    /\ running[w] /\ ~closed[w]
    /\ Len(produced[w]) < MaxEvents
    /\ LET e == [n |-> Len(produced[w]) + 1, type |-> ev.type, sentinel |-> ev.sentinel]
           last == IsQueueAdapter(adapter_mode) /\ Terminal(ev.type)
       IN  /\ produced' = [produced EXCEPT ![w] = Append(@, e)]
           /\ channel' = [channel EXCEPT ![w] = Append(@, e)]
           /\ closed' = [closed EXCEPT ![w] = last]
           /\ running' = [running EXCEPT ![w] = ~last]
    /\ UNCHANGED <<adapter_mode, next_assignment, tasks_started, item_status,
                   sess_status, wmon, sink, committed>>
    /\ UNCHANGED <<aoVars, teamVars, dispVars, watchVars, cmdVars, gitVars>>

\* The stdout pipe of the CLI subprocess reaches end-of-file.
StdoutCloses(w) ==
    /\ adapter_mode = "cli"
    /\ wmon[w].pc # "none" /\ ~closed[w]
    /\ closed' = [closed EXCEPT ![w] = TRUE]
    /\ UNCHANGED <<adapter_mode, next_assignment, tasks_started, item_status,
                   sess_status, running, produced, channel, wmon, sink, committed>>
    /\ UNCHANGED <<aoVars, teamVars, dispVars, watchVars, cmdVars, gitVars>>

\* The CLI subprocess exits and asyncio records its return code.
ProcessExits(w) ==
    /\ adapter_mode = "cli"
    /\ running[w]
    /\ running' = [running EXCEPT ![w] = FALSE]
    /\ UNCHANGED <<adapter_mode, next_assignment, tasks_started, item_status,
                   sess_status, produced, channel, closed, wmon, sink, committed>>
    /\ UNCHANGED <<aoVars, teamVars, dispVars, watchVars, cmdVars, gitVars>>

\* A channel that hands out its newest event first.
next_event_Newest(q) == q[Len(q)]

\* `async for raw_line in proc.stdout` / `queue.get()`: the oldest event.
next_event(q) == Head(q)

\* stream_output has nothing more to yield.  CLI (claude_adapter.py lines
\* 116-147): end-of-file, or the read raised.  Queue adapters
\* (anthropic_adapter.py lines 547-558): a "complete" or "error" event was
\* yielded, or _running is cleared and the queue is empty.
stream_ended(w) ==
    IF adapter_mode = "cli"
    THEN wmon[w].broken \/ (channel[w] = <<>> /\ (closed[w] \/ ~running[w]))
    ELSE Terminal(wmon[w].last) \/ (~running[w] /\ channel[w] = <<>>)

\* _monitor_agent, line 229: stream_output yields the next event.
MonitorNext(w) ==
    /\ wmon[w].pc = "stream" /\ ~stream_ended(w)
    /\ channel[w] # <<>>
    /\ wmon' = [wmon EXCEPT ![w].pc = "emit", ![w].cur = next_event(channel[w])]
    /\ channel' = [channel EXCEPT ![w] = Tail(@)]
    /\ UNCHANGED <<adapter_mode, next_assignment, tasks_started, item_status,
                   sess_status, running, produced, closed, sink, committed>>
    /\ UNCHANGED <<aoVars, teamVars, dispVars, watchVars, cmdVars, gitVars>>

\* claude_adapter.py lines 141-147: reading the pipe raises; stream_output
\* yields an "error" event of its own and ends.
ChannelBreaks(w) ==
    /\ adapter_mode = "cli"
    /\ wmon[w].pc = "stream" /\ ~stream_ended(w)
    /\ wmon' = [wmon EXCEPT ![w].pc = "emit", ![w].broken = TRUE,
                          ![w].cur = [n |-> 0, type |-> "error", sentinel |-> FALSE]]
    /\ UNCHANGED <<adapter_mode, next_assignment, tasks_started, item_status,
                   sess_status, running, produced, channel, closed, sink, committed>>
    /\ UNCHANGED <<aoVars, teamVars, dispVars, watchVars, cmdVars, gitVars>>

\* Whether the last signal of the stream so far is an error event: one was
\* read and nothing read after it set completed_ok.
ErroredAfter(errored, ev) ==
    IF ev.type = "error" THEN TRUE
    ELSE IF CompletedAfter(FALSE, ev) THEN FALSE
    ELSE errored

\* _monitor_agent, lines 230-250: the event is passed to _emit_log, then
\* completed_ok is updated.
MonitorEmits(w) ==
    /\ wmon[w].pc = "emit"
    /\ sink' = [sink EXCEPT ![w] = Append(@, wmon[w].cur)]
    /\ wmon' = [wmon EXCEPT ![w].pc = "stream",
                          ![w].completed_ok = CompletedAfter(@, wmon[w].cur),
                          ![w].errored = ErroredAfter(@, wmon[w].cur),
                          ![w].last = wmon[w].cur.type,
                          ![w].cur = NoEvent]
    /\ UNCHANGED <<adapter_mode, next_assignment, tasks_started, item_status,
                   sess_status, running, produced, channel, closed, committed>>
    /\ UNCHANGED <<aoVars, teamVars, dispVars, watchVars, cmdVars, gitVars>>

\* _monitor_agent, line 253.
final_status(completed_ok, is_run) ==
    IF completed_ok \/ ~is_run THEN "idle" ELSE "failed"

\* _monitor_agent, lines 252-283: the stream has ended; the worktree is
\* committed and session and item are set IDLE and review, or both are set
\* FAILED.
MonitorEnds(w) ==
    /\ wmon[w].pc = "stream" /\ stream_ended(w)
    /\ LET ok == final_status(wmon[w].completed_ok, running[w]) = "idle"
       IN  /\ committed' = [committed EXCEPT ![w] = @ \/ ok]
           /\ item_status' = [item_status EXCEPT ![w] = IF ok THEN "review" ELSE "failed"]
           /\ sess_status' = [sess_status EXCEPT ![w] = IF ok THEN "idle" ELSE "failed"]
    /\ wmon' = [wmon EXCEPT ![w].pc = "done"]
    /\ UNCHANGED <<adapter_mode, next_assignment, tasks_started, running, produced,
                   channel, closed, sink>>
    /\ UNCHANGED <<aoVars, teamVars, dispVars, watchVars, cmdVars, gitVars>>

\* No assignment started yet, under one adapter.
InitNoWorkers ==
    /\ adapter_mode = "cli"
    /\ next_assignment = 1
    /\ tasks_started = {}
    /\ item_status = [w \in Workers |-> "todo"]
    /\ sess_status = [w \in Workers |-> "none"]
    /\ running = [w \in Workers |-> FALSE]
    /\ produced = [w \in Workers |-> <<>>]
    /\ channel = [w \in Workers |-> <<>>]
    /\ closed = [w \in Workers |-> FALSE]
    /\ wmon = [w \in Workers |-> NoMonitor]
    /\ sink = [w \in Workers |-> <<>>]
    /\ committed = [w \in Workers |-> FALSE]

\* No dispatcher run, no watcher.
InitNoDispatch ==
    /\ d_roles = <<>>
    /\ d_tasks = <<>>
    /\ d_call = NoCall

\* No team directory, a watcher not started.
InitNoWatch ==
    /\ now = 1
    /\ config_file = NoConfig
    /\ inbox_files = [n \in InboxNames |-> NoInbox]
    /\ task_files = [n \in TaskNames |-> NoTask]
    /\ InitWatcher

Init == InitOrchestrator /\ InitTeam /\ InitNoDispatch /\ InitNoWatch /\ InitGit /\ InitNoWorkers

\* AgentOrchestrator with its ClaudeCodeAdapter and TaskDispatcher.
NextOrchestrator ==
    \/ \E a \in Agents, t \in Tasks, wtOk \in BOOLEAN : StartAgentCall(a, t, wtOk)
    \/ \E wtOk \in BOOLEAN : DispatchCall(wtOk)
    \/ \E i \in 1..Len(calls), wtOk \in BOOLEAN : StartSpawned(i, wtOk)
    \/ \E i \in 1..Len(calls) : StartSpawnFailed(i)
    \/ \E i \in 1..Len(calls), wtOk \in BOOLEAN : StartResume(i, wtOk)
    \/ \E a \in Agents : StopAgentCall(a)
    \/ \E i \in 1..Len(calls) : StopAgentExited(i)
    \/ \E i \in 1..Len(calls) : StopAgentTimeout(i)
    \/ \E m \in 1..Len(monitors) : MonStart(m)
    \/ \E m \in 1..Len(monitors), ev \in Events : MonRead(m, ev)
    \/ \E m \in 1..Len(monitors) : MonEmitLog(m)
    \/ \E m \in 1..Len(monitors) : MonStreamEnd(m)
    \/ \E m \in 1..Len(monitors) : MonFinish(m)
    \/ \E p \in 1..Len(procs) : ProcCloseStdout(p)
    \/ \E p \in 1..Len(procs), rc \in {"zero", "nonzero"} : ProcExit(p, rc)

Next == NextOrchestrator

Spec == Init /\ [][Next]_vars

\* AgentOrchestrator on a project with a second worker, which another
\* orchestrator run started: its session is in the table, and the item is
\* todo or is the one that worker runs.
OtherAgent == NumAgents + 1

InitStop ==
    /\ InitTeam /\ InitNoDispatch /\ InitNoWatch /\ InitGit /\ InitNoWorkers
    /\ sessions \in {<<[agent_id |-> OtherAgent, status |-> st]>> : st \in {"running", "idle"}}
    /\ \E owner \in {0, OtherAgent} :
          /\ task_assigned = [t \in Tasks |-> owner]
          /\ task_status = [t \in Tasks |-> IF owner = 0 THEN "todo" ELSE "in_progress"]
    /\ task_title = [t \in Tasks |-> TitleOf(t)]
    /\ procs = <<>>
    /\ processes = [a \in Agents |-> 0]
    /\ monitoring_tasks = [a \in Agents |-> 0]
    /\ monitors = <<>>
    /\ calls = <<>>
    /\ agent_status = [a \in Agents |-> "none"]

SpecStop == InitStop /\ [][NextOrchestrator]_vars

\* UnifiedTeamOrchestrator, for one project.
NextTeam ==
    \/ \E preset \in PresetArgs, wtfail \in 0..MaxWtFail : CreatePresetCall(preset, wtfail)
    \/ \E wtfail \in 0..MaxWtFail : CreatePromptCall(wtfail)
    \/ CleanupCall
    \/ \E i \in 1..Len(tcalls) : CleanupMonitorDone(i)
    \/ \E i \in 1..Len(tcalls) : CleanupProcExited(i)
    \/ \E i \in 1..Len(tcalls) : CleanupProcTimeout(i)
    \/ \E i \in 1..Len(tcalls) : TeamSpawned(i)
    \/ \E a \in {r.id : r \in agent_rows}, t \in Tasks, wtOk \in BOOLEAN :
          StartOnTaskCall(a, t, wtOk)
    \/ \E i \in 1..Len(tcalls) : StartOnTaskSpawned(i)
    \/ \E m \in 1..Len(tmons) : TeamMonStart(m)
    \/ \E m \in 1..Len(tmons) : TeamMonTeammateSpawned(m)
    \/ \E m \in 1..Len(tmons) : TeamMonEnd(m)
    \/ \E p \in 1..Len(tprocs) : TeamProcExit(p)
    \/ \E a \in {r.id : r \in agent_rows} : RemoveTeammate(a)
    \/ \E kind \in SendKinds : SendCall(kind)

SpecTeam == Init /\ [][NextTeam]_vars

\* The dispatcher on any project database within the bounds.
InitDispatch ==
    /\ InitOrchestrator /\ InitTeam /\ InitNoWatch /\ InitGit /\ InitNoWorkers
    /\ d_roles \in RoleSeqs
    /\ d_tasks \in TaskSeqs(Len(d_roles))
    /\ d_call = NoCall

NextDispatch ==
    \/ \E task_id \in 0..MaxDTasks : AutoAssignCall(task_id)
    \/ \E task_id \in 1..(MaxDTasks + 1) : RequeueCall(task_id)

SpecDispatch == InitDispatch /\ [][NextDispatch]_vars

\* The watcher on any team directory within the bounds: a roster or none,
\* an inbox of up to MaxOld earlier messages (written 0) or none.
InitWatch ==
    /\ InitOrchestrator /\ InitTeam /\ InitNoDispatch /\ InitGit /\ InitNoWorkers
    /\ now = 1
    /\ config_file \in {NoConfig} \cup
                       {[exists |-> TRUE, mtime |-> 1, valid |-> TRUE, members |-> M] :
                          M \in SUBSET Members}
    /\ inbox_files \in [InboxNames ->
                          {NoInbox} \cup
                          {[exists |-> TRUE, mtime |-> 1, valid |-> TRUE,
                            msgs |-> [i \in 1..k |-> 0]] : k \in 0..MaxOld}]
    /\ task_files = [n \in TaskNames |-> NoTask]
    /\ InitWatcher

NextWatch ==
    \/ Start
    \/ PollConfig
    \/ PollInboxes
    \/ PollTasks
    \/ Wake
    \/ Tick
    \/ \E M \in SUBSET Members, valid \in BOOLEAN : WriteConfig(M, valid)
    \/ \E n \in InboxNames : AppendInbox(n)
    \/ \E n \in InboxNames : TornInbox(n)
    \/ \E n \in InboxNames, keep \in 0..(MaxOld + MaxWrites) : RewriteInbox(n, keep)

SpecWatch == InitWatch /\ [][NextWatch]_vars

\* start() runs its loop until stop() is called: the watcher's steps are
\* taken again and again.  Nothing obliges the tool to write or the clock
\* to move.
SpecWatchLive ==
    /\ SpecWatch
    /\ WF_vars(Start)
    /\ WF_vars(PollConfig)
    /\ WF_vars(PollInboxes)
    /\ WF_vars(PollTasks)
    /\ WF_vars(Wake)

\* The watcher on a team that has no roster: task files written before
\* the watcher starts or none, an inbox written to and at times not
\* readable, and a caller of stop().
InitSync ==
    /\ InitOrchestrator /\ InitTeam /\ InitNoDispatch /\ InitGit /\ InitNoWorkers
    /\ now = 1
    /\ config_file = NoConfig
    /\ inbox_files = [n \in InboxNames |-> NoInbox]
    /\ task_files \in [TaskNames ->
                         {NoTask} \cup {[exists |-> TRUE, mtime |-> 1, valid |-> v] :
                                          v \in BOOLEAN}]
    /\ InitWatcher

NextSync ==
    \/ Start
    \/ PollConfig
    \/ PollInboxes
    \/ PollTasks
    \/ Wake
    \/ Stop
    \/ Tick
    \/ \E n \in TaskNames, valid \in BOOLEAN : WriteTask(n, valid)
    \/ \E n \in InboxNames : AppendInbox(n)
    \/ \E n \in InboxNames : InboxUnreadable(n)
    \/ \E n \in InboxNames : InboxReadable(n)

SpecSync == InitSync /\ [][NextSync]_vars

\* The loop of start() runs on; nothing obliges anyone to call stop().
SpecSyncLive ==
    /\ SpecSync
    /\ WF_vars(Start)
    /\ WF_vars(PollConfig)
    /\ WF_vars(PollInboxes)
    /\ WF_vars(PollTasks)
    /\ WF_vars(Wake)

\* The watcher of a team whose task directory is there from the start or
\* appears later, among other directories under tasks/.
InitDiscover ==
    /\ InitOrchestrator /\ InitTeam /\ InitNoDispatch /\ InitGit /\ InitNoWorkers
    /\ now = 1
    /\ config_file = NoConfig
    /\ inbox_files = [n \in InboxNames |-> NoInbox]
    /\ task_files = [n \in TaskNames |-> NoTask]
    /\ InitPolling
    /\ task_dirs \in [by_name : BOOLEAN, other : {"none", "recent", "old"}]

NextDiscover ==
    \/ Start
    \/ PollConfig
    \/ PollInboxes
    \/ PollTasks
    \/ Wake
    \/ Tick
    \/ \E n \in TaskNames, valid \in BOOLEAN : WriteTask(n, valid)
    \/ MakeNameDir
    \/ MakeOtherDir
    \/ OtherDirAges
    \/ RemoveOtherDir

SpecDiscover == InitDiscover /\ [][NextDiscover]_vars

\* The watcher started on a team directory that holds a roster, an inbox
\* and task files, or some of them, with the tool writing to the three.
InitBaseline ==
    /\ InitOrchestrator /\ InitTeam /\ InitNoDispatch /\ InitGit /\ InitNoWorkers
    /\ now = 1
    /\ config_file \in {NoConfig} \cup
                       {[exists |-> TRUE, mtime |-> 1, valid |-> TRUE, members |-> M] :
                          M \in SUBSET Members}
    /\ inbox_files \in [InboxNames ->
                          {NoInbox} \cup
                          {[exists |-> TRUE, mtime |-> 1, valid |-> TRUE,
                            msgs |-> [i \in 1..k |-> 0]] : k \in 0..MaxOld}]
    /\ task_files \in [TaskNames ->
                         {NoTask} \cup {[exists |-> TRUE, mtime |-> 1, valid |-> v] :
                                          v \in BOOLEAN}]
    /\ InitWatcher

NextBaseline ==
    \/ Start
    \/ PollConfig
    \/ PollInboxes
    \/ PollTasks
    \/ Wake
    \/ Tick
    \/ \E M \in SUBSET Members : WriteConfig(M, TRUE)
    \/ \E n \in InboxNames : AppendInbox(n)
    \/ \E n \in TaskNames : WriteTask(n, TRUE)

SpecBaseline == InitBaseline /\ [][NextBaseline]_vars

\* A team in SDK mode, just created (lines 463-478): its rows, its
\* TeamState with an empty queue, the monitor task about to run.
InitSdk ==
    /\ InitOrchestrator /\ InitNoDispatch /\ InitNoWatch /\ InitGit /\ InitNoWorkers
    /\ agent_rows = {[id |-> 1, is_lead |-> TRUE, parent_agent_id |-> 0,
                      team_name |-> "review"]}
    /\ session_rows = {[id |-> 1, agent_id |-> 1, status |-> "running"]}
    /\ states = <<[team_name |-> "review", lead_agent_id |-> 1]>>
    /\ teams = SdkTeam
    /\ cli_processes = 0
    /\ team_monitors = 0
    /\ agent_monitors = <<>>
    /\ tprocs = <<>>
    /\ tmons = <<>>
    /\ tcalls = <<>>
    /\ ncalls = 0
    /\ preset_error = FALSE
    /\ command_queue = <<>>
    /\ send_result = "none"
    /\ sdk_mon = [NoSdkMonitor EXCEPT !.pc = "top"]
    /\ sdk_stop = FALSE
    /\ sdk_sent = 0
    /\ sdk_runs = <<>>

NextSdk ==
    \/ SdkSend
    \/ SdkLoopTop
    \/ \E outcome \in SdkOutcomes : SdkQueryEnds(outcome)
    \/ SdkWait
    \/ SdkCleanup
    \/ SdkCancelled

SpecSdk == InitSdk /\ [][NextSdk]_vars

\* The monitor task is scheduled again and again, every query ends, and a
\* cancelled task is resumed.  Nothing obliges anyone to send a command or
\* to call cleanup_team.
SpecSdkLive ==
    /\ SpecSdk
    /\ WF_vars(SdkLoopTop)
    /\ WF_vars(\E outcome \in SdkOutcomes : SdkQueryEnds(outcome))
    /\ WF_vars(SdkWait)
    /\ WF_vars(SdkCancelled)

\* GitWorkspaceManager on one repository, with the workers that write in
\* their worktrees.
NextGit ==
    \/ \E a \in GitAgents : CreateWorktree(a)
    \/ \E a \in GitAgents : WorkerWrites(a)
    \/ \E a \in GitAgents : CommitChanges(a)
    \/ HeadMoves
    \/ \E a \in GitAgents : CleanupWorktree(a)
    \/ CleanupAll
    \/ \E ids \in SUBSET GitAgents : CreateMergePlan(ids)

\* The repository of a project of any name.
InitRepo ==
    /\ InitOrchestrator /\ InitTeam /\ InitNoDispatch /\ InitNoWatch /\ InitNoWorkers
    /\ repo_head = 0
    /\ worktrees = [a \in GitAgents |-> NoWorktree]
    /\ creates = [a \in GitAgents |-> 0]
    /\ git_call = NoGitCall
    /\ project_name \in ProjectNames
    /\ merge_plan = NoPlan

SpecGit == InitRepo /\ [][NextGit]_vars

\* dispatch_tasks and the monitors of the workers it starts, under each
\* adapter.
InitWorkers ==
    /\ InitOrchestrator /\ InitTeam /\ InitNoDispatch /\ InitNoWatch /\ InitGit
    /\ adapter_mode \in AdapterModes
    /\ next_assignment = 1
    /\ tasks_started = {}
    /\ item_status = [w \in Workers |-> "todo"]
    /\ sess_status = [w \in Workers |-> "none"]
    /\ running = [w \in Workers |-> FALSE]
    /\ produced = [w \in Workers |-> <<>>]
    /\ channel = [w \in Workers |-> <<>>]
    /\ closed = [w \in Workers |-> FALSE]
    /\ wmon = [w \in Workers |-> NoMonitor]
    /\ sink = [w \in Workers |-> <<>>]
    /\ committed = [w \in Workers |-> FALSE]

NextWorkers ==
    \/ \E outcome \in {"worktree", "spawn", "ok"} : DispatchStart(outcome)
    \/ \E w \in Workers, ev \in StreamEvents : Produce(w, ev)
    \/ \E w \in Workers : StdoutCloses(w)
    \/ \E w \in Workers : ProcessExits(w)
    \/ \E w \in Workers : MonitorNext(w)
    \/ \E w \in Workers : ChannelBreaks(w)
    \/ \E w \in Workers : MonitorEmits(w)
    \/ \E w \in Workers : MonitorEnds(w)

SpecWorkers == InitWorkers /\ [][NextWorkers]_vars

\* ------------------------------------------------ session lifecycle claims
\* The monitor m commits its final statuses in this step.
MonitorCommits(m) ==
    /\ m \in 1..Len(monitors)
    /\ monitors[m].pc = "emit_status"
    /\ ~monitors[m].cancelled
    /\ monitors'[m].pc = "done"

\* C1: when a worker's process exited with a non-zero code, was never
\* signalled, and its output carried neither a completion event nor a
\* sentinel phrase, the monitor ends with the session FAILED, the item failed
\* and a "failed" status reported for the worker.
C1_NonZeroExitFails ==
    [][\A m \in 1..Len(monitors) :
          ( /\ MonitorCommits(m)
            /\ ~monitors[m].completed_ok
            /\ monitors[m].proc # 0
            /\ procs[monitors[m].proc].returncode = "nonzero"
            /\ procs[monitors[m].proc].sig = "none"
            /\ processes[monitors[m].agent] = monitors[m].proc )
          => /\ sessions'[monitors[m].session].status = "failed"
             /\ task_status'[monitors[m].task] = "failed"
             /\ agent_status'[monitors[m].agent] = "failed"]_vars

\* C4: when stop_agent and the monitor's completion of the same worker
\* overlap, a session that is IDLE or STOPPED keeps that status: the
\* transition that happens second does not overwrite the first.
C4_SecondTransitionIsNoOp ==
    [][\A s \in 1..Len(sessions) :
          sessions[s].status \in {"idle", "stopped"}
          => sessions'[s].status = sessions[s].status]_vars

\* stop_agent(a) returns in this step.
StopAgentReturns(a) ==
    \/ StopAgentCall(a) /\ calls' = calls
    \/ \E i \in 1..Len(calls) : calls[i].agent = a /\ StopAgentExited(i)

\* The latest session of worker a (0 if it has none).
LatestSession(S, a) ==
    IF \E s \in 1..Len(S) : S[s].agent_id = a
    THEN CHOOSE s \in 1..Len(S) :
            /\ S[s].agent_id = a
            /\ \A r \in 1..Len(S) : S[r].agent_id = a => r <= s
    ELSE 0

\* C5: when stop_agent returns for a worker, the worker's session is
\* STOPPED whatever its status was before the call.
C5_StopAlwaysStopped ==
    [][\A a \in Agents :
          (StopAgentReturns(a) /\ LatestSession(sessions, a) # 0)
          => sessions'[LatestSession(sessions, a)].status = "stopped"]_vars

ActiveSessions(a) ==
    {s \in 1..Len(sessions) :
        sessions[s].agent_id = a /\ sessions[s].status \in {"starting", "running"}}

LiveProcs(a) ==
    {p \in 1..Len(procs) : procs[p].agent = a /\ procs[p].returncode = "none"}

LiveMonitors(a) ==
    {m \in 1..Len(monitors) : monitors[m].agent = a /\ monitors[m].pc # "done"}

\* C6: a worker has at most one active (STARTING or RUNNING) session, at
\* most one live process and at most one unfinished monitor task.
C6_OneActivePerWorker ==
    \A a \in Agents :
        /\ Cardinality(ActiveSessions(a)) <= 1
        /\ Cardinality(LiveProcs(a)) <= 1
        /\ Cardinality(LiveMonitors(a)) <= 1

\* ----------------------------------------------------------- team claims
\* The status changes the session state machine allows.
AllowedEdge(from, to) ==
    \/ from = to
    \/ from = "starting" /\ to \in {"running", "failed", "stopped"}
    \/ from = "running" /\ to \in {"idle", "failed", "stopped"}

\* No row is deleted in this step (ids are only reused after a delete).
NoRowDeleted ==
    /\ teams' = teams
    /\ agent_rows \subseteq agent_rows'
    /\ {r.id : r \in session_rows} \subseteq {r.id : r \in session_rows'}

\* C2: every change of a session's status follows an edge of the state
\* machine (STARTING->RUNNING, STARTING->FAILED, RUNNING->IDLE,
\* RUNNING->FAILED, RUNNING->STOPPED, non-terminal->STOPPED), and every
\* session row is created in STARTING.
C2_SessionStateMachine ==
    [][/\ NoRowDeleted =>
            \A r \in session_rows : \A q \in session_rows' :
                q.id = r.id => AllowedEdge(r.status, q.status)
       /\ \A q \in session_rows' :
            q.id \notin {r.id : r \in session_rows} => q.status = "starting"]_vars

\* C3: a RUNNING session of a lead has a live process of that worker or a
\* monitor task of that worker that has not finished.
C3_RunningHasLiveHandle ==
    \A r \in session_rows :
        (r.status = "running" /\ \E l \in agent_rows : l.id = r.agent_id /\ l.is_lead) =>
            \/ \E p \in 1..Len(tprocs) : tprocs[p].agent = r.agent_id /\ tprocs[p].alive
            \/ \E m \in 1..Len(tmons) : tmons[m].agent = r.agent_id /\ tmons[m].pc # "done"

\* The lead processes that run and were not sent SIGKILL.
LiveLeadProcs ==
    {p \in 1..Len(tprocs) :
        tprocs[p].kind = "lead" /\ tprocs[p].alive /\ tprocs[p].sig # "kill"}

UnfinishedLeadMonitors ==
    {m \in 1..Len(tmons) : tmons[m].kind = "lead" /\ tmons[m].pc # "done"}

\* C7: whatever the interleaving of create and cleanup calls, the project
\* has the lead record, the lead process and the lead monitor of at most one
\* team.
C7_OneTeamPerProject ==
    /\ Cardinality({r \in agent_rows : r.is_lead}) <= 1
    /\ Cardinality(LiveLeadProcs) <= 1
    /\ Cardinality(UnfinishedLeadMonitors) <= 1

\* The cleanup_team call i, made on its own with no other call in flight
\* since it began, ends in this step.
SoloCleanupEnds(i) ==
    /\ i \in 1..Len(tcalls)
    /\ tcalls[i].op = "cleanup"
    /\ tcalls[i].solo
    /\ Len(tcalls) = 1
    /\ tcalls' = <<>>

SoloCleanupRaises(i) ==
    /\ SoloCleanupEnds(i)
    /\ tcalls[i].pc \in {"await_monitor", "await_agent_monitor"}
    /\ tmons[tcalls[i].mon].exc

\* A cleanup_team call made with no other call in flight runs to its end
\* without suspending.
SoloCleanupAtOnce == CleanupCall /\ tcalls = <<>> /\ tcalls' = <<>>

\* C8: a cleanup_team call with no other call in flight (the first or the
\* second in a row, with or without a team) returns without error and
\* leaves no registry entry, no worker record and no session record.
C8_CleanupIdempotent ==
    [][(SoloCleanupAtOnce \/ \E i \in 1..Len(tcalls) : SoloCleanupEnds(i))
       => /\ \A i \in 1..Len(tcalls) : ~SoloCleanupRaises(i)
          /\ teams' = 0
          /\ agent_rows' = {}
          /\ session_rows' = {}]_vars

\* C9: when cleanup_team returns, every monitor task has finished and every
\* process has exited or was sent SIGKILL.
C9_CleanupTerminatesAll ==
    [][(SoloCleanupAtOnce \/ \E i \in 1..Len(tcalls) : SoloCleanupEnds(i))
       => /\ \A m \in 1..Len(tmons') : tmons'[m].pc = "done"
          /\ \A p \in 1..Len(tprocs') : ~tprocs'[p].alive \/ tprocs'[p].sig = "kill"]_vars

\* C10: the worker records of the project have exactly one lead, and every
\* other record has that lead as its parent.
C10_OneLeadOthersChildren ==
    agent_rows # {} =>
        \E l \in agent_rows :
            /\ l.is_lead
            /\ \A r \in agent_rows \ {l} : ~r.is_lead /\ r.parent_agent_id = l.id

\* ------------------------------------------------ claims: task dispatcher
\* The items an auto_assign(task_id) call is about: todo, unassigned, and the
\* one named when task_id is given.
Covered(k, t) ==
    /\ d_tasks[t].status = "todo"
    /\ d_tasks[t].assigned = 0
    /\ k # 0 => t = k

NonLead == {a \in DOMAIN d_roles : d_roles[a] # "lead"}

\* The non-lead workers of the preferred role of item t.
Matching(t) ==
    {a \in NonLead : d_roles[a] = PreferredRoleOf[d_tasks[t].title]}

\* C11: with at least one non-lead worker, no item that was todo and
\* unassigned before auto_assign is unassigned after it.
C11_NoneLeftUnassigned ==
    [][\A k \in 0..MaxDTasks :
         (AutoAssignCall(k) /\ NonLead # {})
         => \A t \in DOMAIN d_tasks : Covered(k, t) => d_tasks'[t].assigned # 0]_vars

\* auto_assign has assigned every item of the project to non-lead workers,
\* one of them outside its preferred role for want of a worker of that role.
C11_Witness ==
    /\ d_call.op = "auto_assign"
    /\ Len(d_call.result) = MaxDTasks
    /\ \A a \in DOMAIN d_roles : d_roles[a] # "lead"
    /\ \E t \in DOMAIN d_tasks :
          /\ PreferredRoleOf[d_tasks[t].title] # NoRole
          /\ Matching(t) = {}

\* C12: an item whose title yields a preferred role goes to a non-lead
\* worker of that role when there is one, and to a worker of another role
\* only when there is none.
C12_PreferredRoleWins ==
    [][\A k \in 0..MaxDTasks :
         AutoAssignCall(k)
         => \A t \in DOMAIN d_tasks :
              (Covered(k, t) /\ PreferredRoleOf[d_tasks[t].title] # NoRole)
              => /\ Matching(t) # {} => d_tasks'[t].assigned \in Matching(t)
                 /\ (d_tasks'[t].assigned # 0 /\ d_tasks'[t].assigned \notin Matching(t))
                    => Matching(t) = {}]_vars

\* An item went to a worker of its preferred role although a non-lead worker
\* of another role comes earlier in the team.
C12_Witness ==
    /\ d_call.op = "auto_assign"
    /\ \E i \in 1..Len(d_call.result) :
          LET a == d_call.result[i][1]
              t == d_call.result[i][2]
          IN  /\ d_roles[a] = PreferredRoleOf[d_tasks[t].title]
              /\ \E b \in NonLead : b < a /\ d_roles[b] # d_roles[a]

\* The load of worker a at the i-th pick of a batch: its in_progress and
\* review items before the call plus the picks 1..i-1 that went to it.
LoadAtPick(res, i, a) ==
    Cardinality({t \in DOMAIN d_tasks : /\ d_tasks[t].status \in {"in_progress", "review"}
                                        /\ d_tasks[t].assigned = a})
    + Cardinality({j \in 1..(i - 1) : res[j][1] = a})

\* The candidate pool of item t: the matching workers, else all non-lead.
Pool(t) ==
    IF PreferredRoleOf[d_tasks[t].title] # NoRole /\ Matching(t) # {}
    THEN Matching(t) ELSE NonLead

\* C13: every pick is a worker of the candidate pool with the least load at
\* that pick, the earliest in input order among those.
C13_LeastLoadedFirst ==
    [][\A k \in 0..MaxDTasks :
         AutoAssignCall(k)
         => LET res == d_call'.result
            IN  \A i \in 1..Len(res) :
                  LET a == res[i][1]
                      pool == Pool(res[i][2])
                  IN  pool # {}
                      => /\ a \in pool
                         /\ \A b \in pool :
                              \/ LoadAtPick(res, i, a) < LoadAtPick(res, i, b)
                              \/ /\ LoadAtPick(res, i, a) = LoadAtPick(res, i, b)
                                 /\ a <= b]_vars

\* Two items of the same title went to two different workers of the same
\* role in one batch: the first pick raised the load the second pick saw.
C13_Witness ==
    /\ d_call.op = "auto_assign"
    /\ Len(d_call.result) = 2
    /\ LET a == d_call.result[1][1]
           b == d_call.result[2][1]
       IN  /\ a < b
           /\ d_roles[a] = d_roles[b]
           /\ d_tasks[d_call.result[1][2]].title = d_tasks[d_call.result[2][2]].title

C15_FixApiToBackend ==
    [][\A k \in 0..MaxDTasks :
         AutoAssignCall(k)
         => /\ PreferredRole(Title_FixApi) = "backend"
            /\ PreferredRole(Title_TestUi) = "frontend"
            /\ PreferredRole(Title_Misc) = NoRole
            /\ d_roles = FullstackRoles
               => \A t \in DOMAIN d_tasks :
                    (Covered(k, t) /\ d_tasks[t].title = Title_FixApi)
                    => d_tasks'[t].assigned = 2]_vars

\* In the preset team the item went to the backend worker, which was the
\* only worker with an item in progress.
C15_Witness ==
    /\ d_call.op = "auto_assign"
    /\ d_roles = FullstackRoles
    /\ \E i \in 1..Len(d_call.result) :
          /\ d_call.result[i][1] = 2
          /\ d_tasks[d_call.result[i][2]].title = Title_FixApi
    /\ \E t \in DOMAIN d_tasks :
          d_tasks[t].status = "in_progress" /\ d_tasks[t].assigned = 2

\* C16: requeue_failed on an existing item leaves it todo and unassigned and
\* changes nothing else; called again at once it changes nothing.
C16_RequeueResets ==
    [][\A k \in 1..(MaxDTasks + 1) :
         RequeueCall(k)
         => /\ k \in DOMAIN d_tasks
               => /\ d_tasks'[k] = [d_tasks[k] EXCEPT !.status = "todo", !.assigned = 0]
                  /\ \A t \in DOMAIN d_tasks \ {k} : d_tasks'[t] = d_tasks[t]
            /\ (d_call.op = "requeue_failed" /\ d_call.arg = k)
               => d_tasks' = d_tasks]_vars

\* An item that auto_assign had assigned was requeued.
C16_Witness ==
    /\ d_call.op = "requeue_failed"
    /\ d_call.arg \in DOMAIN d_tasks
    /\ d_tasks[d_call.arg].status = "todo"
    /\ d_tasks[d_call.arg].assigned = 0
    /\ \E t \in DOMAIN d_tasks : d_tasks[t].status = "todo" /\ d_tasks[t].assigned # 0

\* ------------------------------------------- claims: failed items stay failed
\* A step of an explicit start_agent call on item t: the call itself or the
\* resumption of its coroutine.
ExplicitStartStep(t) ==
    \/ \E a \in Agents, wtOk \in BOOLEAN : StartAgentCall(a, t, wtOk)
    \/ \E i \in 1..Len(calls) :
          /\ calls[i].op = "start_agent"
          /\ calls[i].task = t
          /\ \/ \E wtOk \in BOOLEAN : StartSpawned(i, wtOk) \/ StartResume(i, wtOk)
             \/ StartSpawnFailed(i)

\* The step adds a session row for item t.
SessionStartedFor(t) ==
    /\ Len(sessions') > Len(sessions)
    /\ \E i \in 1..Len(calls') :
          calls'[i].task = t /\ calls'[i].session = Len(sessions')

\* C17: a failed item stays failed, and no session is started for it, under
\* every step that is not part of an explicit start of a worker on it
\* (dispatch_tasks with its auto_assign, the monitors, the processes,
\* stop_agent).
C17_FailedStaysFailed ==
    [][\A t \in Tasks :
         (task_status[t] = "failed" /\ ~ExplicitStartStep(t))
         => (task_status'[t] = "failed" /\ ~SessionStartedFor(t))]_vars

\* ------------------------------------------------------ claims: file watcher
\* The roster file is readable and has exactly the member m more than the
\* last-known set.
GainedOne(m) ==
    /\ config_file.exists /\ config_file.valid
    /\ m \notin known_members
    /\ config_file.members = known_members \cup {m}

\* The poll fires member-joined once, for m alone, and records the roster.
JoinedOnce(m) ==
    /\ member_joined' = [member_joined EXCEPT ![m] = @ + 1]
    /\ known_members' = config_file.members

\* Polling a readable roster equal to the last-known set fires nothing.
RepollSilent ==
    (PollConfig /\ config_file.exists /\ config_file.valid
       /\ config_file.members = known_members)
    => (member_joined' = member_joined /\ known_members' = known_members)

\* C18 as stated: whenever the roster has gained one member since the
\* last-known set, the next poll fires member-joined exactly once for it and
\* records it, and a poll of the unchanged roster fires nothing.
C18_GainFiresOnce ==
    [][/\ \A m \in Members : (PollConfig /\ GainedOne(m)) => JoinedOnce(m)
       /\ RepollSilent]_vars

\* C18 amended: the same, provided the roster file's modification time is
\* later than the one the watcher recorded last.
C18_GainFiresOnceIfMtimeAdvanced ==
    [][/\ \A m \in Members :
            (PollConfig /\ GainedOne(m) /\ config_file.mtime > config_mtime)
            => JoinedOnce(m)
       /\ RepollSilent]_vars

\* A member that joined a non-empty roster has been reported once and is in
\* the last-known set, and the roster file has been polled again since.
C18_Witness ==
    /\ w_pc = "inboxes"
    /\ \E m \in Members :
          /\ member_joined[m] = 1
          /\ known_members = config_file.members
          /\ m \in known_members
          /\ known_members # {m}
          /\ config_file.valid
          /\ config_mtime = config_file.mtime
          /\ \A o \in Members \ {m} : member_joined[o] = 0

\* The messages passed to the callback for inbox n, in order.
DeliveredTo(log, n) ==
    LET q == SelectSeq(log, LAMBDA e : e[1] = n)
    IN  [i \in 1..Len(q) |-> q[i][2]]

\* Those of them appended after the watcher started (numbered from 1).
NewOnly(msgs) == SelectSeq(msgs, LAMBDA x : x > 0)

UpTo(k) == [i \in 1..k |-> i]

\* Exactly once and in index order: the new messages delivered so far are
\* the first ones appended, each once.
InOrderOnce(log, n, count) ==
    LET d == NewOnly(DeliveredTo(log, n))
    IN  d = UpTo(Len(d)) /\ Len(d) <= count

\* C19 as stated: for an inbox that only grows by appending, every message
\* appended after the start is eventually delivered, and the deliveries are
\* exactly once and in index order.  (A file that is rewritten, or caught
\* half-written, in the meantime discharges the obligation.)
C19_AppendedDeliveredOnce ==
    \A n \in InboxNames :
      /\ [](~inbox_rewritten[n] => InOrderOnce(inbox_message, n, appended[n]))
      /\ \A k \in 1..MaxWrites :
           [](appended[n] >= k
              => <>(inbox_rewritten[n]
                    \/ ~inbox_files[n].valid
                    \/ Len(NewOnly(DeliveredTo(inbox_message, n))) >= k))

\* C19 amended: for an inbox that only grows by appending, the deliveries
\* are exactly once and in index order, and every message appended after
\* the start has been delivered after a poll that finds the file readable
\* with a modification time later than the one recorded for it.
C19_DeliveredOnceWhenMtimeAdvanced ==
    [][\A n \in InboxNames :
         ~inbox_rewritten'[n]
         => /\ InOrderOnce(inbox_message', n, appended'[n])
            /\ (PollInboxes /\ inbox_files[n].exists /\ inbox_files[n].valid
                  /\ inbox_files[n].mtime > Get(inbox_mtimes, n))
               => NewOnly(DeliveredTo(inbox_message', n)) = UpTo(appended[n])]_vars

\* An inbox that held earlier messages at the start has received MaxWrites
\* appended messages over several clock readings; all of them, and none of
\* the earlier ones, have been delivered.
C19_Witness ==
    \E n \in InboxNames :
      /\ ~inbox_rewritten[n]
      /\ appended[n] = MaxWrites
      /\ DeliveredTo(inbox_message, n) = UpTo(MaxWrites)
      /\ Len(inbox_files[n].msgs) > MaxWrites
      /\ inbox_mtimes[n] > 2

\* C20: a poll that reads an inbox holding fewer messages than the length
\* recorded for it fires inbox-message for every message of the file.
C20_ShrunkRestartsFromZero ==
    [][\A n \in InboxNames :
         (/\ PollInboxes
          /\ inbox_files[n].exists /\ inbox_files[n].valid
          /\ inbox_files[n].mtime > Get(inbox_mtimes, n)
          /\ Len(inbox_files[n].msgs) < Get(inbox_lengths, n))
         => DeliveredTo(inbox_message', n)
              = DeliveredTo(inbox_message, n) \o inbox_files[n].msgs]_vars

\* ----------------------------------------------------- claims: launch failure
\* C27: a start that fails at launch, by the worktree or by the spawn, leaves
\* the item failed in the same step and the session, if one was created,
\* failed.
C27_LaunchFailureFailsItem ==
    [][/\ \A a \in Agents, t \in Tasks :
            StartAgentCall(a, t, FALSE)
            => /\ task_status'[t] = "failed"
               /\ \A s \in 1..Len(sessions') :
                    s > Len(sessions) => sessions'[s].status = "failed"
       /\ \A i \in 1..Len(calls) :
            StartSpawnFailed(i)
            => /\ task_status'[calls[i].task] = "failed"
               /\ sessions'[calls[i].session].status = "failed"]_vars

\* ------------------------------------------------- claims: session ownership
\* C30: every session row belongs to an agent row that exists.
C30_SessionsHaveOwner ==
    \A s \in session_rows : HasRow(agent_rows, s.agent_id)

\* ---------------------------------------------- claims: commands to the lead
\* The project has no team registered, or the team's lead process or its
\* monitor has ended.
NoActiveLeadSession ==
    \/ teams = 0
    \/ cli_processes # 0 /\ ~tprocs[cli_processes].alive
    \/ team_monitors # 0 /\ tmons[team_monitors].pc = "done"

\* C25: send_command_to_lead, broadcast_message and send_message return an
\* error and queue nothing when there is no active session to take the text.
C25_SendWithoutSessionIsError ==
    [][\A kind \in SendKinds :
         (SendCall(kind) /\ NoActiveLeadSession)
         => (send_result' = "error" /\ command_queue' = command_queue)]_vars

\* ------------------------------------------------------- claims: worktrees
\* The agent's worktree is a new checkout: a registered directory without
\* uncommitted files, on a branch created at the current HEAD with no
\* commit added.
FreshWorktree(g, head) ==
    /\ g.exists /\ g.registered /\ ~g.dirty
    /\ g.branch /\ g.base = head /\ g.ahead = 0

\* C24: a create_worktree call for an agent that follows an earlier
\* create_worktree call for it succeeds and leaves a fresh worktree: a
\* new branch at the current HEAD, with none of the files or commits of the
\* earlier worktree.
C24_RecreateIsFresh ==
    [][\A a \in GitAgents :
         (CreateWorktree(a) /\ creates[a] >= 1)
         => (git_call'.ok /\ FreshWorktree(worktrees'[a], repo_head))]_vars

\* The second create_worktree call of an agent met a directory with
\* uncommitted files and a branch with a commit, after HEAD had moved, and
\* succeeded.
C24_Witness ==
    /\ git_call.ok /\ git_call.had_dir /\ git_call.had_dirty
    /\ git_call.had_ahead > 0
    /\ git_call.agent \in GitAgents
    /\ creates[git_call.agent] = 2
    /\ repo_head > 0
    /\ FreshWorktree(worktrees[git_call.agent], repo_head)

\* ------------------------------------------------ claims: task files, stop
\* The pairs a step adds to the task-update log.
NewUpdates == {task_update'[i] : i \in (Len(task_update) + 1)..Len(task_update')}

\* C21: every task update carries is_new = TRUE exactly when the watcher
\* has not met the file before, in its snapshot or in an earlier poll
\* (whether or not that poll could parse it).
C21_IsNewOnFirstSight ==
    [][PollTasks => \A u \in NewUpdates : u[2] = (u[1] \notin observed)]_vars

\* Both flags have been passed for one file: TRUE when a poll first met
\* it, FALSE on a later update.
C21_Witness ==
    \E n \in TaskNames : \E i, j \in 1..Len(task_update) :
        /\ i < j
        /\ task_update[i] = <<n, TRUE>>
        /\ task_update[j] = <<n, FALSE>>

\* C22: once stop() has been called no new tick begins, and start()
\* returns.
C22_StopEndsLoop ==
    /\ [][stop_event => ~(w_pc' = "config" /\ w_pc # "config")]_vars
    /\ (stop_event ~> w_pc = "returned")

\* start() has returned after a stop() that came while the loop was running
\* and after updates had been passed on; or without a single tick.
C22_Witness ==
    /\ stop_event /\ w_pc = "returned"
    /\ Len(task_update) >= 1

\* Every message of the inbox file has been passed to the callback.
AllReported(n, log) ==
    \A i \in 1..Len(inbox_files[n].msgs) :
        \E j \in 1..Len(log) : log[j] = <<n, inbox_files[n].msgs[i]>>

\* C23: a poll that finds readable an inbox whose last read, of a change,
\* had failed reads it and passes on every message in it; the inbox has
\* been written once, before the read that failed.
C23_FailedReadIsRetried ==
    [][\A n \in InboxNames :
         (PollInboxes /\ n \in read_failed /\ appended[n] = 1
            /\ inbox_files[n].exists /\ inbox_files[n].valid)
         => (n \notin read_failed' /\ AllReported(n, inbox_message'))]_vars

\* ------------------------------------------- claims: workers side by side
\* The step is a failure of worker w's session: its start raised or set the
\* session FAILED, its channel broke, its process exited, it produced an
\* error event, or its monitor set the session FAILED.
FailureOf(w) ==
    \/ DispatchStart("worktree") /\ next_assignment = w
    \/ DispatchStart("spawn") /\ next_assignment = w
    \/ ChannelBreaks(w)
    \/ ProcessExits(w)
    \/ \E ev \in StreamEvents : ev.type = "error" /\ Produce(w, ev)
    \/ MonitorEnds(w) /\ sess_status'[w] = "failed"

\* C26: a failure of one worker's session leaves the session status, the
\* item status, the process and the monitor of every other worker as they
\* were; and after a start that failed the loop of dispatch_tasks is at the
\* next assignment.
C26_FailureStaysLocal ==
    [][\A w \in Workers :
         FailureOf(w)
         => /\ \A v \in Workers \ {w} :
                 /\ sess_status'[v] = sess_status[v]
                 /\ item_status'[v] = item_status[v]
                 /\ running'[v] = running[v]
                 /\ wmon'[v] = wmon[v]
            /\ next_assignment = w => next_assignment' = w + 1]_vars

\* The first worker's start failed on its worktree, the second worker was
\* started after it and has completed its item.
C26_Witness ==
    /\ next_assignment > NumWorkers
    /\ 1 \notin tasks_started /\ sess_status[1] = "none"
    /\ 2 \in tasks_started /\ sess_status[2] = "idle" /\ item_status[2] = "review"
    /\ committed[2]

\* C28: a monitor whose stream ended after an error event, with no
\* completion signal after it, sets the session FAILED and the item failed;
\* a monitor whose stream carried a completion signal last commits the
\* worktree and sets the session IDLE and the item review.
C28_ErrorEndsFailed ==
    [][\A w \in Workers :
          MonitorEnds(w)
          => /\ wmon[w].errored
                => /\ sess_status'[w] = "failed"
                   /\ item_status'[w] = "failed"
             /\ wmon[w].completed_ok
                => /\ committed'[w]
                   /\ sess_status'[w] = "idle"
                   /\ item_status'[w] = "review"]_vars

\* The events of the worker among those passed on.
FromWorker(log) == SelectSeq(log, LAMBDA e : e.n > 0)

\* C29: the worker's events passed to the sink are, in order and once each,
\* the first events the worker produced; they are all of them once the stream
\* has ended without a broken channel.
C29_ForwardedInOrderOnce ==
    \A w \in Workers :
        LET fw == FromWorker(sink[w])
        IN  /\ Len(fw) <= Len(produced[w])
            /\ fw = SubSeq(produced[w], 1, Len(fw))
            /\ (wmon[w].pc = "done" /\ ~wmon[w].broken) => fw = produced[w]

\* A worker's two events have both been passed on while the other worker's
\* events were passed on as well.
C29_Witness ==
    /\ Len(sink[1]) = MaxEvents /\ sink[1] = produced[1]
    /\ wmon[1].pc = "done"
    /\ Len(sink[2]) >= 1

\* ----------------------------------------------- claims: workspace errors
\* C31: a team creation on a project without a team, in which a
\* create_worktree raises, leaves no lead row without a registered team and
\* registers no team with a worker that has no session on a worktree.
C31_WorktreeFailureSurfaced ==
    [][\A wtfail \in 1..MaxWtFail :
         /\ (CreatePromptCall(wtfail) /\ agent_rows = {} /\ teams = 0 /\ tcalls = <<>>)
            => (teams' = 0 => \A r \in agent_rows' : ~r.is_lead)
         /\ \A preset \in PresetIds :
              (CreatePresetCall(preset, wtfail) /\ agent_rows = {} /\ teams = 0
                 /\ tcalls = <<>>)
              => (teams' # 0 =>
                    \A r \in agent_rows' : \E x \in session_rows' : x.agent_id = r.id)]_vars

\* ------------------------------------------------- claims: stopping a process
\* C32: SIGKILL is sent to a lead process only after SIGTERM and only while
\* it has not exited, a process that has exited is sent no signal, and
\* cleanup_team goes on past the stop only once the process has exited.
C32_StopWaitsForExit ==
    [][/\ \A p \in 1..Len(tprocs) :
            tprocs'[p].sig # tprocs[p].sig
            => /\ tprocs[p].alive
               /\ tprocs'[p].sig = "kill" => tprocs[p].sig = "term"
       /\ \A i \in 1..Len(tcalls) :
            (CleanupProcExited(i) \/ CleanupProcTimeout(i))
            => ~tprocs'[tcalls[i].proc].alive]_vars

\* ------------------------------------------------ claims: auto_assign's frame
\* C33: auto_assign changes nothing but the assigned-worker field of items
\* that were todo and unassigned: every item it assigns is todo afterwards,
\* and an item that was already assigned or is not todo keeps its row.
C33_AssignOnlyTodoUnassigned ==
    [][\A k \in 0..MaxDTasks :
         AutoAssignCall(k)
         => /\ DOMAIN d_tasks' = DOMAIN d_tasks
            /\ d_roles' = d_roles
            /\ \A t \in DOMAIN d_tasks :
                 /\ d_tasks'[t] = [d_tasks[t] EXCEPT !.assigned = d_tasks'[t].assigned]
                 /\ d_tasks'[t].assigned # d_tasks[t].assigned
                    => /\ d_tasks[t].status = "todo"
                       /\ d_tasks[t].assigned = 0
                       /\ d_tasks'[t].status = "todo"
                 /\ (d_tasks[t].assigned # 0 \/ d_tasks[t].status # "todo")
                    => d_tasks'[t] = d_tasks[t]]_vars

\* A later auto_assign has assigned an item while an item assigned in an
\* earlier batch, still todo, and an item that is not todo were on the board.
C33_Witness ==
    /\ d_call.op = "auto_assign"
    /\ d_call.result # <<>>
    /\ \E t \in DOMAIN d_tasks :
          /\ d_tasks[t].status = "todo"
          /\ d_tasks[t].assigned # 0
          /\ \A i \in 1..Len(d_call.result) : d_call.result[i][2] # t
          /\ \E a \in DOMAIN d_roles : a # d_tasks[t].assigned

\* ------------------------------------------- claims: the merge plan's branch
\* C34: for every worker and every project name, create_merge_plan diffs
\* against HEAD the branch create_worktree created for that worker, so a
\* worker whose branch exists has its entry in the plan under that branch;
\* create_merge_plan changes no branch, worktree or repository state.
C34_PlanReadsWorkerBranch ==
    [][\A ids \in SUBSET GitAgents :
         CreateMergePlan(ids)
         => /\ \A a \in ids :
                 worktrees[a].branch
                 => \E i \in 1..Len(merge_plan'.plan) :
                       /\ merge_plan'.plan[i].agent_id = a
                       /\ merge_plan'.plan[i].branch = branch_name(project_name, a)
            /\ UNCHANGED <<repo_head, worktrees, project_name>>]_vars

\* ------------------------------------------ claims: a worktree for each worker
\* C35: every worker process is started with its working directory set to
\* that worker's own worktree; no two workers share a worktree path or a
\* branch, and no worker process runs in the main checkout.
C35_WorkersRunInOwnWorktree ==
    /\ \A p \in 1..Len(tprocs) :
          /\ tprocs[p].cwd = worktree_dir(tprocs[p].agent)
          /\ tprocs[p].cwd # RepoPath
    /\ \A a, b \in 1..MaxDAgents :
          a # b => /\ worktree_dir(a) # worktree_dir(b)
                   /\ \A n \in ProjectNames : branch_name(n, a) # branch_name(n, b)

\* ---------------------------------------------- claims: the task directory
\* C36: on every poll tick, if the task directory named after the team
\* exists, task updates are read from it; the fallback directory is used
\* only while the by-name directory is absent.
C36_ByNameDirPreferred ==
    [][PollTasks
       => /\ task_dirs.by_name => task_dir' = "by_name"
          /\ task_dir' = "other" => ~task_dirs.by_name]_vars

C38_UnknownPresetTouchesNothing ==
    [][\A preset \in PresetArgs \ DOMAIN TEAM_PRESETS, wtfail \in 0..MaxWtFail :
         CreatePresetCall(preset, wtfail)
         => /\ preset_error'
            /\ UNCHANGED <<agent_rows, session_rows, states, teams, cli_processes,
                           team_monitors, agent_monitors, tprocs, tmons, tcalls>>
            /\ UNCHANGED <<aoVars, gitVars>>]_vars

\* The last create_team_from_preset call had an unknown preset id, on a
\* project whose team is registered with its lead process running.
C38_Witness ==
    /\ preset_error
    /\ tcalls = <<>>
    /\ teams # 0
    /\ cli_processes # 0 /\ tprocs[cli_processes].alive
    /\ team_monitors # 0
    /\ agent_rows # {} /\ session_rows # {}

\* ------------------------------------------ claims: commands to an SDK lead
\* The monitor has started a query with command c as its prompt.
SdkRan(c) == \E i \in 1..Len(sdk_runs) : sdk_runs[i].prompt = c

\* Commands run in the order sent, one at a time: the queries started are
\* the initial prompt and then the commands 1, 2, ... without gap or
\* repetition, and every query but the last one has finished.
SdkInOrderOneAtATime ==
    /\ \A i \in 1..Len(sdk_runs) : sdk_runs[i].prompt = i - 1
    /\ \A i \in 1..(Len(sdk_runs) - 1) : sdk_runs[i].done

\* With the stop event set no query is started.
SdkNoneAfterStop == sdk_stop => Len(sdk_runs') = Len(sdk_runs)

StopAgentStep(a) ==
    \/ StopAgentCall(a)
    \/ \E i \in 1..Len(calls) :
          calls[i].agent = a /\ (StopAgentExited(i) \/ StopAgentTimeout(i))

====
